---- MODULE Spec2Model ----
(***************************************************************************)
(* Model of recipe_adapter.py: the Planner -> unit converter -> Stylist    *)
(* workflow, the client selection done at module load, the mock client,    *)
(* the PlanningResult / Substitution schema and the unit converter tool.   *)
(*                                                                         *)
(* Representation.  A Python str is a sequence of one-character strings.   *)
(* A loosely typed Python value is a record [t, n, s]: t is the type tag   *)
(* ("num", "str", "none"), n the number when t = "num", s the characters   *)
(* when t = "str".  A number is a record [k, neg, m, e]: a Python int, or a *)
(* Python float with the values of IEEE 754 binary64; float(str),          *)
(* float(int) and the product by 120.0 round to nearest, ties to even,     *)
(* overflow to infinity and underflow to zero as the interpreter does.     *)
(* Characters are those of Latin-1 (a string literal of the module cannot  *)
(* hold any other), so whitespace and digits beyond Latin-1 are outside    *)
(* the model.  The texts produced by the agents and the recipe / style     *)
(* inputs are opaque TLA+ strings.                                         *)
(***************************************************************************)
EXTENDS Integers, Sequences, FiniteSets, TLC

VARIABLES
    API_KEY,            \* os.environ.get("GEMINI_API_KEY"): "" stands for None or ''
    init_raises,        \* whether genai.Client(api_key=...) raises for this key
    stdout_encodes,     \* whether sys.stdout can encode the emoji of the status messages
    client,             \* "unset" | "live" | "mock"
    API_MODEL_NAME,     \* module global, rebound to "MOCK_MODEL" in mock mode
    load_error,         \* the exception that left the module body, "none" if none
    pc,                 \* "load" | "crashed" | "idle" | "PLANNING" | "CONVERTING" | "STYLING" | "DONE" | "FAILED"
    run,                \* number of workflow runs started
    original_recipe,    \* argument of the current run
    target_style,       \* argument of the current run
    planning_result,    \* local of the workflow: what run_agent returned for the Planner
    conversion_list,    \* local of the workflow (line 141)
    idx,                \* position of the for loop over conversion_list (0 = before line 141)
    conversion_results, \* local of the workflow (line 139)
    last_request,       \* the request most recently passed to client.models.generate_content
    final_recipe_draft, \* local of the workflow: what run_agent returned for the Stylist
    printed,            \* the text printed between the "=" rules (line 172), "" if none
    returned,           \* the value the workflow call returned to its caller
    error,              \* the exception that left the workflow, "none" if none
    error_at,           \* the stage the workflow was in when it was raised
    stylist_prompt,     \* local of the workflow (lines 154-160)
    planner_calls,      \* Planner invocations of the current run
    tool_calls,         \* unit_converter_tool invocations of the current run
    stylist_calls,      \* Stylist invocations of the current run
    tool_call,          \* direct call of unit_converter_tool: [amount, unit, result, done]
    mock_call           \* direct call of MockModels.generate_content: [request, response, done]

vars == <<API_KEY, init_raises, stdout_encodes, client, API_MODEL_NAME, load_error, pc, run,
          original_recipe, target_style, planning_result, conversion_list, idx,
          conversion_results, last_request, final_recipe_draft, printed, returned,
          error, error_at, stylist_prompt, planner_calls, tool_calls, stylist_calls,
          tool_call, mock_call>>

workflow_vars == <<pc, run, original_recipe, target_style, planning_result, conversion_list,
                   idx, conversion_results, last_request, final_recipe_draft, printed,
                   returned, error, error_at, stylist_prompt, planner_calls, tool_calls,
                   stylist_calls>>

load_vars == <<API_KEY, init_raises, stdout_encodes, client, API_MODEL_NAME, load_error>>

----------------------------------------------------------------------------
(* Bounds *)

MaxConv == 2        \* longest conversion_list the live Planner returns
MaxRuns == 2        \* workflow runs per behaviour
MaxAmount == 3      \* direct tool calls use amounts in -MaxAmount..MaxAmount

----------------------------------------------------------------------------
(* Python values *)

\* F applied to arguments that are evaluated once.  TLC evaluates an
\* operator's argument wherever the operator's body mentions it; a bound
\* variable ranging over a singleton holds the value instead.
Strict1(F(_), a) == CHOOSE r \in { F(x) : x \in {a} } : TRUE
Strict2(F(_, _), a, b) == CHOOSE r \in { F(x, y) : x \in {a}, y \in {b} } : TRUE
Strict3(F(_, _, _), a, b, c) ==
    CHOOSE r \in { F(x, y, z) : x \in {a}, y \in {b}, z \in {c} } : TRUE
Strict4(F(_, _, _, _), a, b, c, d) ==
    CHOOSE r \in { F(x, y, z, w) : x \in {a}, y \in {b}, z \in {c}, w \in {d} } : TRUE

\* natural numbers of any size (a Python int, and the exact arithmetic
\* behind float): little-endian sequences of limbs in base 2^12 without a
\* high zero limb; << >> is zero.  Products are formed column by column, so
\* one of two factors has at most 128 limbs (it is below 2^1536).
LimbBits == 12
Base == 4096

RECURSIVE Pow2(_)
Pow2(k) == IF k = 0 THEN 1 ELSE 2 * Pow2(k - 1)

RECURSIVE SmallBitLen(_)
SmallBitLen(n) == IF n = 0 THEN 0 ELSE 1 + SmallBitLen(n \div 2)

RECURSIVE SmallTrailingZeros(_)
SmallTrailingZeros(n) == IF n % 2 = 1 THEN 0 ELSE 1 + SmallTrailingZeros(n \div 2)

\* the position of the highest nonzero limb among a[1..i], 0 if none
RECURSIVE TopIndex(_, _)
TopIndex(a, i) == IF i = 0 THEN 0 ELSE IF a[i] /= 0 THEN i ELSE TopIndex(a, i - 1)

\* a without its high zero limbs
BigNorm(a0) ==
    Strict1(LAMBDA a :
        SubSeq(a, 1, TopIndex(a, Len(a))),
        a0)

\* the carry into position k of u, whose entries are at most Base + 2
RECURSIVE CarryIn(_, _)
CarryIn(u, k) ==
    IF k = 1 THEN 0
    ELSE IF u[k - 1] >= Base THEN 1
    ELSE IF u[k - 1] = Base - 1 THEN CarryIn(u, k - 1)
    ELSE 0

\* columns below 2^31 brought below 3 * Base
Carry1(cols) ==
    SubSeq([i \in 1..(Len(cols) + 2) |->
               (IF i <= Len(cols) THEN cols[i] % Base ELSE 0)
               + (IF i >= 2 /\ i <= Len(cols) + 1 THEN (cols[i - 1] \div Base) % Base ELSE 0)
               + (IF i >= 3 THEN cols[i - 2] \div (Base * Base) ELSE 0)],
           1, Len(cols) + 2)

\* columns below 3 * Base brought to at most Base + 2
Carry2(t) ==
    SubSeq([i \in 1..(Len(t) + 1) |->
               (IF i <= Len(t) THEN t[i] % Base ELSE 0)
               + (IF i >= 2 THEN t[i - 1] \div Base ELSE 0)],
           1, Len(t) + 1)

\* columns of at most Base + 2 brought to limbs
Carry3(u) == BigNorm([i \in 1..Len(u) |-> (u[i] + CarryIn(u, i)) % Base])

\* the number sum of cols[i] * Base^(i-1), every cols[i] in 0..2^31-1
BigCarry(cols) == Strict1(Carry3, Strict1(Carry2, Strict1(Carry1, cols)))

\* a * c + add for c and add in 0..Base-1
BigMulSmall(a0, c0, add0) ==
    Strict3(LAMBDA a, c, add :
        BigCarry([i \in 1..(IF Len(a) = 0 THEN 1 ELSE Len(a)) |->
                     (IF i <= Len(a) THEN a[i] * c ELSE 0) + (IF i = 1 THEN add ELSE 0)]),
        a0, c0, add0)

BigAdd(a0, b0) ==
    Strict2(LAMBDA a, b :
        BigCarry([i \in 1..(IF Len(a) > Len(b) THEN Len(a) ELSE Len(b)) |->
                     (IF i <= Len(a) THEN a[i] ELSE 0) + (IF i <= Len(b) THEN b[i] ELSE 0)]),
        a0, b0)

\* the sum of a[i] * b[k + 1 - i] for i in lo..hi
RECURSIVE ColumnSum(_, _, _, _, _)
ColumnSum(a, b, k, lo, hi) ==
    IF lo > hi THEN 0 ELSE a[lo] * b[k + 1 - lo] + ColumnSum(a, b, k, lo + 1, hi)

\* a * b for a not longer than b
BigMulShort(a, b) ==
    IF Len(a) = 0 THEN << >>
    ELSE BigCarry([k \in 1..(Len(a) + Len(b) - 1) |->
                      ColumnSum(a, b, k, IF k > Len(b) THEN k + 1 - Len(b) ELSE 1,
                                IF k < Len(a) THEN k ELSE Len(a))])

BigMul(a0, b0) ==
    Strict2(LAMBDA a, b :
        IF Len(a) <= Len(b) THEN BigMulShort(a, b) ELSE BigMulShort(b, a),
        a0, b0)

RECURSIVE BigCmpAt(_, _, _)
BigCmpAt(a, b, i) ==
    IF i = 0 THEN 0
    ELSE IF a[i] > b[i] THEN 1
    ELSE IF a[i] < b[i] THEN 0 - 1
    ELSE BigCmpAt(a, b, i - 1)

\* 1, 0, -1 as a > b, a = b, a < b
BigCmp(a0, b0) ==
    Strict2(LAMBDA a, b :
        IF Len(a) > Len(b) THEN 1
        ELSE IF Len(a) < Len(b) THEN 0 - 1
        ELSE BigCmpAt(a, b, Len(a)),
        a0, b0)

\* a - b for a >= b: a plus the complement of b, less Base^Len(a)
BigSub(a0, b0) ==
    Strict2(LAMBDA a, b :
        IF Len(a) = 0 THEN << >>
        ELSE BigNorm(SubSeq(BigCarry([i \in 1..Len(a) |->
                                         a[i] + (Base - 1 - (IF i <= Len(b) THEN b[i] ELSE 0))
                                         + (IF i = 1 THEN 1 ELSE 0)]),
                            1, Len(a))),
        a0, b0)

\* a * 2^k
BigShl(a0, k0) ==
    Strict2(LAMBDA a, k :
        BigCarry([i \in 1..(Len(a) + k \div LimbBits) |->
                     IF i <= k \div LimbBits THEN 0
                     ELSE a[i - k \div LimbBits] * Pow2(k % LimbBits)]),
        a0, k0)

\* a \div 2^k
BigShr(a0, k0) ==
    Strict2(LAMBDA a, k :
        IF k \div LimbBits >= Len(a) THEN << >>
        ELSE BigNorm([i \in 1..(Len(a) - k \div LimbBits) |->
                         (a[i + k \div LimbBits] \div Pow2(k % LimbBits))
                         + (IF i + k \div LimbBits < Len(a)
                            THEN (a[i + 1 + k \div LimbBits] % Pow2(k % LimbBits))
                                 * Pow2(LimbBits - (k % LimbBits))
                            ELSE 0)]),
        a0, k0)

BigBitLen(a0) ==
    Strict1(LAMBDA a :
        IF Len(a) = 0 THEN 0 ELSE (Len(a) - 1) * LimbBits + SmallBitLen(a[Len(a)]),
        a0)

BigIsOdd(a) == Len(a) > 0 /\ a[1] % 2 = 1

\* the number of low zero bits of a > 0, counted from limb i on
RECURSIVE TrailingZerosFrom(_, _)
TrailingZerosFrom(a, i) ==
    IF a[i] = 0 THEN LimbBits + TrailingZerosFrom(a, i + 1) ELSE SmallTrailingZeros(a[i])

\* the number of low zero bits of a > 0
BigTrailingZeros(a0) ==
    Strict1(LAMBDA a :
        TrailingZerosFrom(a, 1),
        a0)

BigSquare(a) == BigMul(a, a)

RECURSIVE BigPow10(_)
BigPow10(n) ==
    IF n = 0 THEN << 1 >>
    ELSE IF n % 2 = 1 THEN BigMulSmall(BigPow10(n - 1), 10, 0)
    ELSE Strict1(BigSquare, BigPow10(n \div 2))

\* numbers: k = "int" is the Python int (-1)^neg * m; the other kinds are the
\* values of a Python float (IEEE 754 binary64): k = "fin" is the nonzero
\* (-1)^neg * m * 2^e with m odd, and "zero", "inf", "nan" the rest
PyInt(n) == [k |-> "int", neg |-> n < 0, m |-> BigCarry(<< IF n < 0 THEN 0 - n ELSE n >>), e |-> 0]
Fin(neg, m, e) == [k |-> "fin", neg |-> neg, m |-> m, e |-> e]
Zero == [k |-> "zero", neg |-> FALSE, m |-> << >>, e |-> 0]
NegZero == [k |-> "zero", neg |-> TRUE, m |-> << >>, e |-> 0]
PosInf == [k |-> "inf", neg |-> FALSE, m |-> << >>, e |-> 0]
NegInf == [k |-> "inf", neg |-> TRUE, m |-> << >>, e |-> 0]
NaN == [k |-> "nan", neg |-> FALSE, m |-> << >>, e |-> 0]

\* binary64: 53 bits of precision, least exponent of a bit -1074, values
\* below 2^1024
Precision == 53
MinExp == 0 - 1074
MaxExp == 1024

\* the float m * 2^e for m of at most 53 bits: out of range is infinity
PackFloat(neg0, m0, e0) ==
    Strict3(LAMBDA neg, m, e :
        IF Len(m) = 0 THEN (IF neg THEN NegZero ELSE Zero)
        ELSE IF BigBitLen(m) + e > MaxExp THEN (IF neg THEN NegInf ELSE PosInf)
        ELSE Fin(neg, BigShr(m, BigTrailingZeros(m)), e + BigTrailingZeros(m)),
        neg0, m0, e0)

\* q rounded to a multiple of 2^d, d > 0, as a multiple: ties go to the even
\* multiple, and sticky says that q stands for a little more than q
RoundShift(q, d, sticky) ==
    LET high == BigShr(q, d)
        c == BigCmp(BigSub(q, BigShl(high, d)), BigShl(<< 1 >>, d - 1))
    IN  IF c > 0 \/ (c = 0 /\ (sticky \/ BigIsOdd(high)))
        THEN BigMulSmall(high, 1, 1) ELSE high

\* the float nearest to (q + f) * 2^x, ties to even, where 0 <= f < 1 and
\* sticky says f > 0 (q then has more than 54 bits); t is the exponent of
\* the last place of the result
RoundToFloat(neg0, q0, x0, sticky0) ==
    Strict4(LAMBDA neg, q, x, sticky :
        LET t == IF BigBitLen(q) + x - Precision > MinExp
                 THEN BigBitLen(q) + x - Precision ELSE MinExp
        IN  IF t <= x THEN PackFloat(neg, q, x)
            ELSE IF t - x > BigBitLen(q) + 1 THEN (IF neg THEN NegZero ELSE Zero)
            ELSE PackFloat(neg, Strict3(RoundShift, q, t - x, sticky), t),
        neg0, q0, x0, sticky0)

\* one more bit of a quotient by t: st.q holds the bits found, st.r the rest
\* of the dividend, st.r < 2 * t
DivStep(st, t) ==
    IF BigCmp(st.r, t) >= 0
    THEN [r |-> BigMulSmall(BigSub(st.r, t), 2, 0), q |-> BigMulSmall(st.q, 2, 1)]
    ELSE [r |-> BigMulSmall(st.r, 2, 0), q |-> BigMulSmall(st.q, 2, 0)]

\* n more bits
RECURSIVE DivBits(_, _, _)
DivBits(st, t, n) == IF n = 0 THEN st ELSE Strict3(DivBits, DivStep(st, t), t, n - 1)

\* bits 55..0 of the quotient of num by den, num < den * 2^56, in four runs
\* of 14; sticky: the division left a remainder
Divide(num0, den0) ==
    Strict2(LAMBDA num, t :
        LET s1 == DivBits([r |-> num, q |-> << >>], t, 14)
            s2 == Strict3(DivBits, s1, t, 14)
            s3 == Strict3(DivBits, s2, t, 14)
        IN  Strict3(DivBits, s3, t, 14),
        num0, BigShl(den0, 55))

\* the float nearest to d / den, where the quotient scaled by 2^s has 55 or
\* 56 bits
RoundQuotient(neg, st, s) == RoundToFloat(neg, st.q, 0 - s, Len(st.r) > 0)
DivideScaled(neg, d, den, s) ==
    Strict3(RoundQuotient, neg,
            Divide(IF s > 0 THEN BigShl(d, s) ELSE d, IF s < 0 THEN BigShl(den, 0 - s) ELSE den),
            s)
DivideToFloat(neg, d, den) ==
    Strict4(DivideScaled, neg, d, den, 55 - (BigBitLen(d) - BigBitLen(den)))

\* an upper bound of the number of decimal digits of d
DigitsBound(d) == (BigBitLen(d) * 30103) \div 100000 + 1

\* the float nearest to d * 10^x (correctly rounded decimal to binary
\* conversion); beyond the range it is infinity, below it zero
DecimalToFloat(neg0, d0, x0) ==
    Strict3(LAMBDA neg, d, x :
        IF Len(d) = 0 THEN (IF neg THEN NegZero ELSE Zero)
        ELSE IF DigitsBound(d) + x > 311 THEN (IF neg THEN NegInf ELSE PosInf)
        ELSE IF DigitsBound(d) + x < 0 - 330 THEN (IF neg THEN NegZero ELSE Zero)
        ELSE IF x >= 0 THEN RoundToFloat(neg, BigMul(d, BigPow10(x)), 0, FALSE)
        ELSE Strict3(DivideToFloat, neg, d, BigPow10(0 - x)),
        neg0, d0, x0)

\* float(n) for a Python int n: the nearest float, OverflowError beyond the range
FloatOrOverflow(f) ==
    IF f.k = "inf" THEN [err |-> "OverflowError", n |-> Zero] ELSE [err |-> "none", n |-> f]
IntToFloat(n0) ==
    Strict1(LAMBDA n :
        Strict1(FloatOrOverflow, RoundToFloat(n.neg, n.m, 0, FALSE)),
        n0)

\* f * c for the outcome f of a conversion to float
TimesFloat(f, c) ==
    IF f.err /= "none" THEN f
    ELSE IF f.n.k = "fin"
    THEN [err |-> "none", n |-> RoundToFloat(f.n.neg, BigMulSmall(f.n.m, c, 0), f.n.e, FALSE)]
    ELSE f

\* x * c for a number x and the float c = 1.0, 2.0, ... below Base (the
\* amount * 120.0 of line 88): an int x is converted to float first, then
\* the exact product is rounded
Times(x0, c0) ==
    Strict2(LAMBDA x, c :
        Strict2(TimesFloat, IF x.k = "int" THEN IntToFloat(x) ELSE [err |-> "none", n |-> x], c),
        x0, c0)

\* x negated
Neg(x) == IF x.k = "nan" THEN x ELSE [x EXCEPT !.neg = ~x.neg]

\* a Python int (the integer n), a float, a str, None
Num(n) == [t |-> "num", n |-> PyInt(n), s |-> <<>>]
Flt(f) == [t |-> "num", n |-> f, s |-> <<>>]
Str(s) == [t |-> "str", n |-> Zero, s |-> s]
NoneVal == [t |-> "none", n |-> Zero, s |-> <<>>]

UpperAlpha == <<"A","B","C","D","E","F","G","H","I","J","K","L","M",
                "N","O","P","Q","R","S","T","U","V","W","X","Y","Z",
                "À","Á","Â","Ã","Ä","Å","Æ","Ç","È","É","Ê","Ë","Ì","Í","Î","Ï","Ð","Ñ","Ò","Ó","Ô","Õ","Ö","Ø","Ù","Ú","Û","Ü","Ý","Þ">>
LowerAlpha == <<"a","b","c","d","e","f","g","h","i","j","k","l","m",
                "n","o","p","q","r","s","t","u","v","w","x","y","z",
                "à","á","â","ã","ä","å","æ","ç","è","é","ê","ë","ì","í","î","ï","ð","ñ","ò","ó","ô","õ","ö","ø","ù","ú","û","ü","ý","þ">>

\* str.lower() on one character
LowerChar(c) ==
    IF \E i \in 1..Len(UpperAlpha) : UpperAlpha[i] = c
    THEN LowerAlpha[CHOOSE i \in 1..Len(UpperAlpha) : UpperAlpha[i] = c]
    ELSE c

\* str.lower()
Lower(s) == [i \in 1..Len(s) |-> LowerChar(s[i])]

Digits == <<"0","1","2","3","4","5","6","7","8","9">>
IsDigit(c) == \E i \in 1..10 : Digits[i] = c
DigitVal(c) == (CHOOSE i \in 1..10 : Digits[i] = c) - 1

\* at most nine digits as a number
RECURSIVE DigitsToSmall(_)
DigitsToSmall(s) ==
    IF Len(s) = 0 THEN 0
    ELSE 10 * DigitsToSmall(SubSeq(s, 1, Len(s) - 1)) + DigitVal(s[Len(s)])

\* the digits of a mantissa as a natural number
RECURSIVE BigFromDigits(_)
BigFromDigits(s0) ==
    Strict1(LAMBDA s :
        IF Len(s) <= 9 THEN BigCarry(<< DigitsToSmall(s) >>)
        ELSE BigAdd(BigMul(BigFromDigits(SubSeq(s, 1, Len(s) \div 2)),
                           BigPow10(Len(s) - Len(s) \div 2)),
                    BigFromDigits(SubSeq(s, Len(s) \div 2 + 1, Len(s)))),
        s0)

\* the digits of an exponent as a number; every exponent from ExpCap on has
\* the same effect on a mantissa of fewer than ExpCap - 400 digits
ExpCap == 100000
RECURSIVE DigitsToNum(_)
DigitsToNum(s) ==
    IF Len(s) = 0 THEN 0
    ELSE LET n == 10 * DigitsToNum(SubSeq(s, 1, Len(s) - 1)) + DigitVal(s[Len(s)])
         IN  IF n > ExpCap THEN ExpCap ELSE n

\* the whitespace float() strips from both ends of a str
Whitespace == {" ", "\t", "\n", "\r", "\f", "", "", " "}

RECURSIVE LStrip(_)
LStrip(s) == IF Len(s) > 0 /\ s[1] \in Whitespace THEN LStrip(Tail(s)) ELSE s

RECURSIVE RStrip(_)
RStrip(s) ==
    IF Len(s) > 0 /\ s[Len(s)] \in Whitespace THEN RStrip(SubSeq(s, 1, Len(s) - 1)) ELSE s

\* the position of the first character of s that is in set, 0 if none
FirstIndex(s, set) ==
    IF \E i \in 1..Len(s) : s[i] \in set
    THEN CHOOSE i \in 1..Len(s) : s[i] \in set /\ \A j \in 1..(i - 1) : s[j] \notin set
    ELSE 0

\* digits with single underscores between them
IsDigitPart(s) ==
    /\ Len(s) > 0
    /\ \A i \in 1..Len(s) : IsDigit(s[i]) \/ s[i] = "_"
    /\ IsDigit(s[1])
    /\ IsDigit(s[Len(s)])
    /\ \A i \in 1..(Len(s) - 1) : ~(s[i] = "_" /\ s[i + 1] = "_")

DigitsOnly(s) == SelectSeq(s, IsDigit)

\* float(str) on the text left after stripping and taking off the sign:
\* "inf", "infinity", "nan" in any case, or digits with an optional point
\* and an optional exponent
ParseUnsigned(body0) ==
    Strict1(LAMBDA body :
        LET low == Lower(body)
            ePos == FirstIndex(body, {"e", "E"})
            mant == IF ePos = 0 THEN body ELSE SubSeq(body, 1, ePos - 1)
            expo == IF ePos = 0 THEN << >> ELSE SubSeq(body, ePos + 1, Len(body))
            eSigned == Len(expo) > 0 /\ expo[1] \in {"+", "-"}
            eDigits == IF eSigned THEN Tail(expo) ELSE expo
            dotPos == FirstIndex(mant, {"."})
            ip == IF dotPos = 0 THEN mant ELSE SubSeq(mant, 1, dotPos - 1)
            fp == IF dotPos = 0 THEN << >> ELSE SubSeq(mant, dotPos + 1, Len(mant))
            mantOk == IF dotPos = 0 THEN IsDigitPart(ip)
                      ELSE /\ (Len(ip) = 0 \/ IsDigitPart(ip))
                           /\ (Len(fp) = 0 \/ IsDigitPart(fp))
                           /\ (Len(ip) > 0 \/ Len(fp) > 0)
            expoOk == ePos = 0 \/ IsDigitPart(eDigits)
            eAbs == DigitsToNum(DigitsOnly(eDigits))
            eVal == IF eSigned /\ expo[1] = "-" THEN 0 - eAbs ELSE eAbs
        IN  IF low \in {<<"i","n","f">>, <<"i","n","f","i","n","i","t","y">>}
            THEN [err |-> "none", n |-> PosInf]
            ELSE IF low = <<"n","a","n">>
            THEN [err |-> "none", n |-> NaN]
            ELSE IF mantOk /\ expoOk
            THEN [err |-> "none",
                  n |-> DecimalToFloat(FALSE, BigFromDigits(DigitsOnly(ip) \o DigitsOnly(fp)),
                                       eVal - Len(DigitsOnly(fp)))]
            ELSE [err |-> "ValueError", n |-> Zero],
        body0)

\* the outcome r of parsing the text after a sign, negated under a "-"
ApplySign(r, negative) ==
    IF r.err = "none" /\ negative THEN [err |-> "none", n |-> Neg(r.n)] ELSE r

\* float(str) on the stripped text st
FloatOfStripped(st) ==
    IF Len(st) > 0 /\ st[1] \in {"+", "-"}
    THEN Strict2(ApplySign, ParseUnsigned(Tail(st)), st[1] = "-")
    ELSE ParseUnsigned(st)

\* float(x) of line 145: [err |-> exception name or "none", n |-> value]
Float(x) ==
    CASE x.t = "num" -> IF x.n.k = "int" THEN IntToFloat(x.n) ELSE [err |-> "none", n |-> x.n]
      [] x.t = "none" -> [err |-> "TypeError", n |-> Zero]
      [] OTHER -> Strict1(FloatOfStripped, RStrip(LStrip(x.s)))

----------------------------------------------------------------------------
(* 4. TOOLS *)

cups == <<"c","u","p","s">>
cup == <<"c","u","p">>
grams == <<"g","r","a","m","s">>

\* unit_converter_tool(amount, unit): amount is a number, unit a Python value; calling .lower()
\* on a value that is not a str raises AttributeError
unit_converter_tool_swapped(amount, unit) ==
    IF unit.t /= "str" THEN [err |-> "AttributeError", n |-> Zero]
    ELSE IF unit.s \in {cups, cup}
         THEN Times(amount, 120)
         ELSE [err |-> "none", n |-> amount]

unit_converter_tool(amount, unit) ==
    IF unit.t /= "str" THEN [err |-> "AttributeError", n |-> Zero]
    ELSE IF Lower(unit.s) \in {cups, cup}
         THEN Times(amount, 120)
         ELSE [err |-> "none", n |-> amount]

----------------------------------------------------------------------------
(* CORE DATA STRUCTURES (pydantic models) *)

SubstitutionFields == {"original_ingredient", "substitute", "reason"}
PlanningResultFields == {"conversion_list", "substitution_map"}

\* Substitution(**raw): raw is a mapping given as the set of keys it has and
\* the value under each; every declared field is required and must be a str.
\* The instance keeps each field as a typed value.
Substitution_no_reason(raw) ==
    IF /\ {"original_ingredient", "substitute"} \subseteq raw.has
       /\ raw.original_ingredient.t = "str"
       /\ raw.substitute.t = "str"
    THEN [ok |-> TRUE,
          value |-> [original_ingredient |-> raw.original_ingredient,
                     substitute |-> raw.substitute,
                     reason |-> raw.reason]]
    ELSE [ok |-> FALSE,
          value |-> [original_ingredient |-> NoneVal, substitute |-> NoneVal, reason |-> NoneVal]]

Substitution(raw) ==
    IF /\ SubstitutionFields \subseteq raw.has
       /\ raw.original_ingredient.t = "str"
       /\ raw.substitute.t = "str"
       /\ raw.reason.t = "str"
    THEN [ok |-> TRUE,
          value |-> [original_ingredient |-> raw.original_ingredient,
                     substitute |-> raw.substitute,
                     reason |-> raw.reason]]
    ELSE [ok |-> FALSE,
          value |-> [original_ingredient |-> NoneVal, substitute |-> NoneVal, reason |-> NoneVal]]

\* Python None where a PlanningResult is expected
NoneResult == [is_none |-> TRUE, conversion_list |-> <<>>, substitution_map |-> <<>>]

\* PlanningResult(**raw): both fields required; conversion_list is List[Any]
\* (any list, items unchecked), substitution_map is List[Substitution]
PlanningResult(raw) ==
    IF /\ PlanningResultFields \subseteq raw.has
       /\ raw.conversion_list.is_list
       /\ raw.substitution_map.is_list
       /\ \A i \in 1..Len(raw.substitution_map.items) :
              Substitution(raw.substitution_map.items[i]).ok
    THEN [ok |-> TRUE,
          value |-> [is_none |-> FALSE,
                     conversion_list |-> raw.conversion_list.items,
                     substitution_map |->
                         [i \in 1..Len(raw.substitution_map.items) |->
                              Substitution(raw.substitution_map.items[i]).value]]]
    ELSE [ok |-> FALSE, value |-> NoneResult]

\* Substitution.model_dump()
Substitution_model_dump(sub) ==
    [has |-> SubstitutionFields,
     original_ingredient |-> sub.original_ingredient,
     substitute |-> sub.substitute,
     reason |-> sub.reason]

\* PlanningResult.model_dump()
PlanningResult_model_dump(p) ==
    [has |-> PlanningResultFields,
     conversion_list |-> [is_list |-> TRUE, items |-> p.conversion_list],
     substitution_map |->
         [is_list |-> TRUE,
          items |-> [i \in 1..Len(p.substitution_map) |->
                         Substitution_model_dump(p.substitution_map[i])]]]

\* A conversion_list item.  kind "dict": a mapping with the keys in `keys`;
\* kind "list": a list holding the strings in `keys`; kind "none": None.
Conv(kind, keys, amount, unit, to_unit) ==
    [kind |-> kind, keys |-> keys, amount |-> amount, unit |-> unit, to_unit |-> to_unit]

ConvKeys == {"amount", "unit", "to_unit"}

RawSub(has, o, s, r) ==
    [has |-> has, original_ingredient |-> o, substitute |-> s, reason |-> r]

RawPlan(has, cl_is_list, cl, sm_is_list, sm) ==
    [has |-> has,
     conversion_list |-> [is_list |-> cl_is_list, items |-> cl],
     substitution_map |-> [is_list |-> sm_is_list, items |-> sm]]

BeefChuck == <<"B","e","e","f"," ","c","h","u","c","k">>
FirmTofu == <<"F","i","r","m"," ","T","o","f","u">>
VegReason == <<"V","e","g","e","t","a","r","i","a","n"," ","p","r","o","t","e","i","n"," ","s","w","a","p",".">>
SourCream == <<"S","o","u","r"," ","c","r","e","a","m">>
CoconutMilk == <<"F","u","l","l","-","f","a","t"," ","C","o","c","o","n","u","t"," ","M","i","l","k">>
DairyReason == <<"D","a","i","r","y","-","f","r","e","e"," ","c","r","e","a","m","y"," ","b","a","s","e",".">>

\* the keyword arguments of mock_data (lines 24-32); the amount is the float 2.0
MockRawPlan ==
    RawPlan(PlanningResultFields,
            TRUE, << Conv("dict", ConvKeys, Flt(Fin(FALSE, << 1 >>, 1)), Str(cups), Str(grams)) >>,
            TRUE, << RawSub(SubstitutionFields, Str(BeefChuck), Str(FirmTofu), Str(VegReason)),
                     RawSub(SubstitutionFields, Str(SourCream), Str(CoconutMilk), Str(DairyReason)) >>)

\* PlanningResult.mock_data()
mock_data == PlanningResult(MockRawPlan)

----------------------------------------------------------------------------
(* MOCK CLIENT DEFINITIONS *)

MOCK_PLAN_TEXT == "[MOCK OUTPUT: Structured Plan Generated]"
MOCK_FINAL_TEXT == "[MOCK OUTPUT: Final Recipe Text]"

\* MockResponse(text, parsed=None); err names an exception raised instead
MockResponse(text, parsed) == [err |-> "none", text |-> text, parsed |-> parsed]

Raised(e) == [err |-> e, text |-> "", parsed |-> NoneResult]

\* MockModels.generate_content(**kwargs).  kwargs is
\* [has_config, config (the set of keys of the config dict), model, contents]
MockModels_generate_content_always_plan(kwargs) ==
    IF mock_data.ok
    THEN MockResponse(MOCK_PLAN_TEXT, mock_data.value)
    ELSE Raised("ValidationError")

MockModels_generate_content(kwargs) ==
    IF "response_schema" \in (IF kwargs.has_config THEN kwargs.config ELSE {})
    THEN IF mock_data.ok
         THEN MockResponse(MOCK_PLAN_TEXT, mock_data.value)
         ELSE Raised("ValidationError")
    ELSE MockResponse(MOCK_FINAL_TEXT, NoneResult)

----------------------------------------------------------------------------
(* The live client (genai.Client): an external collaborator.  A call either *)
(* raises a provider error or returns a response; for a schema-constrained  *)
(* request response.parsed is the PlanningResult built from the provider's  *)
(* output, or None when that output does not validate.                      *)

Cup_Capital == <<"C","u","p">>
CUPS_Upper == <<"C","U","P","S">>
tbsp == <<"t","b","s","p">>
padded_three_hundredths == <<"","+",".","0","3"," ">>
one_e400 == <<"1","e","4","0","0">>
abc == <<"a","b","c">>
Tofu == <<"T","o","f","u">>
Beef == <<"B","e","e","f">>

\* conversion_list items a provider may produce (List[Any] accepts all of them)
Entries ==
    { Conv("dict", ConvKeys, Num(2), Str(cups), Str(grams)),
      Conv("dict", ConvKeys, Flt(DecimalToFloat(TRUE, << 25 >>, 0 - 2)), Str(Cup_Capital),
           Str(grams)),
      Conv("dict", ConvKeys, Num(0), Str(tbsp), Str(grams)),
      Conv("dict", ConvKeys, Str(padded_three_hundredths), Str(CUPS_Upper), Str(grams)),
      Conv("dict", ConvKeys, Str(one_e400), Str(cups), Str(grams)),
      Conv("dict", {"amount", "unit"}, Num(1), Str(cup), NoneVal),
      Conv("dict", {}, NoneVal, NoneVal, NoneVal),
      Conv("dict", ConvKeys, Str(abc), Str(cups), Str(grams)),
      Conv("dict", ConvKeys, Num(1), Num(5), Str(grams)),
      Conv("list", ConvKeys, NoneVal, NoneVal, NoneVal),
      Conv("none", {}, NoneVal, NoneVal, NoneVal) }

ConvLists == UNION { [1..n -> Entries] : n \in 0..MaxConv }

RawSubMaps ==
    { << >>,
      << RawSub(SubstitutionFields, Str(BeefChuck), Str(FirmTofu), Str(VegReason)) >>,
      << RawSub(SubstitutionFields, Str(Beef), Str(Tofu), Str(<< >>)) >>,
      << RawSub({"original_ingredient", "substitute"}, Str(Beef), Str(Tofu), NoneVal) >>,
      << RawSub(SubstitutionFields, Str(Beef), Num(7), Str(VegReason)) >> }

\* what a provider may send back for the Planner request
RawPlans ==
    { RawPlan(PlanningResultFields, TRUE, cl, TRUE, sm) : cl \in ConvLists, sm \in RawSubMaps }
    \cup { RawPlan({"substitution_map"}, FALSE, << >>, TRUE, << >>),
           RawPlan(PlanningResultFields, FALSE, << >>, TRUE, << >>) }

LIVE_PLAN_TEXT == "{...provider JSON...}"
LiveTexts == {"Tofu Stroganoff, Southeast Asian style: ...", ""}

LiveModels_generate_content(kwargs) ==
    { Raised("ProviderCallError") }
    \cup
    ( IF "response_schema" \in (IF kwargs.has_config THEN kwargs.config ELSE {})
      THEN { MockResponse(LIVE_PLAN_TEXT, PlanningResult(raw).value) : raw \in RawPlans }
      ELSE { MockResponse(t, NoneResult) : t \in LiveTexts } )

\* client.models.generate_content(**kwargs): the set of possible outcomes
generate_content(cl, kwargs) ==
    IF cl = "mock" THEN { MockModels_generate_content(kwargs) }
    ELSE LiveModels_generate_content(kwargs)

----------------------------------------------------------------------------
(* 5. AGENT EXECUTION UTILITY *)

CONCEPTUAL_MODEL_NAME == "AI_Reasoning_Engine_Flash"
LIVE_MODEL_NAME == "gemini-2.5-flash"
MOCK_MODEL_NAME == "MOCK_MODEL"

\* the keyword arguments run_agent passes to generate_content (lines 98-111)
run_agent_request(agent_name, system_prompt, prompt, output_schema, model) ==
    [has_config |-> TRUE,
     config |-> IF output_schema THEN {"response_mime_type", "response_schema"} ELSE {},
     model |-> model,
     contents |-> [agent_name |-> agent_name, system_prompt |-> system_prompt,
                   prompt |-> prompt]]

\* line 113: response.parsed if output_schema else response.text
run_agent_return_flipped(output_schema, response) ==
    IF ~output_schema
    THEN [kind |-> "parsed", parsed |-> response.parsed, text |-> ""]
    ELSE [kind |-> "text", parsed |-> NoneResult, text |-> response.text]

run_agent_return(output_schema, response) ==
    IF output_schema
    THEN [kind |-> "parsed", parsed |-> response.parsed, text |-> ""]
    ELSE [kind |-> "text", parsed |-> NoneResult, text |-> response.text]

NoReturn == [kind |-> "unset", parsed |-> NoneResult, text |-> ""]

----------------------------------------------------------------------------
(* 6. ORCHESTRATION: pieces of run_recipe_adapter_workflow *)

\* lines 123-127
planner_prompt(recipe, style) ==
    [template |-> "planner", original_recipe |-> recipe, target_style |-> style,
     substitution_map_str |-> << >>, conversion_results_str |-> << >>]

planner_system_prompt ==
    [role |-> "Recipe Planner", engine |-> CONCEPTUAL_MODEL_NAME, target_style |-> ""]

stylist_system_prompt(style) ==
    [role |-> "Technical Recipe Stylist", engine |-> CONCEPTUAL_MODEL_NAME,
     target_style |-> style]

\* line 144: 'amount' in conv and 'unit' in conv and 'to_unit' in conv.
\* `in` on None raises TypeError; on a dict it tests the keys, on a list the items.
HasAllKeys(conv) == ConvKeys \subseteq conv.keys

NoOutcome == [original_amount |-> NoneVal, original_unit |-> NoneVal,
              converted_amount |-> Zero, to_unit |-> NoneVal]

\* line 146 on item conv and the outcome r of the tool call
AppendOutcome(conv, r) ==
    IF r.err /= "none"
    THEN [err |-> r.err, called |-> TRUE, appended |-> FALSE, outcome |-> NoOutcome]
    ELSE [err |-> "none", called |-> TRUE, appended |-> TRUE,
          outcome |-> [original_amount |-> conv.amount, original_unit |-> conv.unit,
                       converted_amount |-> r.n, to_unit |-> conv.to_unit]]

\* lines 145-146 on item conv and the outcome f of float(conv['amount'])
ConvertWith(conv, f) ==
    IF f.err /= "none"
    THEN [err |-> f.err, called |-> FALSE, appended |-> FALSE, outcome |-> NoOutcome]
    ELSE Strict2(AppendOutcome, conv, unit_converter_tool(f.n, conv.unit))

\* one iteration of the for loop (lines 143-146) on item conv:
\* err: the exception raised ("none" if none); called: the tool was invoked;
\* appended: a line was appended to conversion_results; outcome: that line
ConvertEntry(conv) ==
    IF conv.kind = "none"
    THEN [err |-> "TypeError", called |-> FALSE, appended |-> FALSE, outcome |-> NoOutcome]
    ELSE IF ~HasAllKeys(conv)
    THEN [err |-> "none", called |-> FALSE, appended |-> FALSE, outcome |-> NoOutcome]
    ELSE IF conv.kind = "list"
    THEN [err |-> "TypeError", called |-> FALSE, appended |-> FALSE, outcome |-> NoOutcome]
    ELSE Strict2(ConvertWith, conv, Float(conv.amount))

\* "\n".join(conversion_results): the lines with a separator between neighbours
Join(lines) ==
    [i \in 1..(IF Len(lines) = 0 THEN 0 ELSE 2 * Len(lines) - 1) |->
        IF i % 2 = 1 THEN [newline |-> FALSE, line |-> lines[(i + 1) \div 2]]
        ELSE [newline |-> TRUE, line |-> NoOutcome]]

\* json.dumps([s.model_dump() for s in substitution_map], indent=2):
\* one (object index, key, value) triple per field, in declaration order
JsonDumps(subs) ==
    [i \in 1..(3 * Len(subs)) |->
        LET d == Substitution_model_dump(subs[(i + 2) \div 3])
            k == i % 3
        IN  [obj |-> (i + 2) \div 3,
             key |-> IF k = 1 THEN "original_ingredient"
                     ELSE IF k = 2 THEN "substitute" ELSE "reason",
             value |-> IF k = 1 THEN d.original_ingredient.s
                       ELSE IF k = 2 THEN d.substitute.s ELSE d.reason.s]]

\* lines 154-160
build_stylist_prompt(recipe, style, plan, results) ==
    [template |-> "stylist", original_recipe |-> recipe, target_style |-> style,
     substitution_map_str |-> JsonDumps(plan.substitution_map),
     conversion_results_str |-> Join(results)]

\* print(final_recipe_draft): str() of what run_agent returned
PyStr(ret) == IF ret.kind = "text" THEN ret.text ELSE "<PlanningResult object>"

NoPrompt == [template |-> "none", original_recipe |-> "", target_style |-> "",
             substitution_map_str |-> << >>, conversion_results_str |-> << >>]

NoRequest == [has_config |-> FALSE, config |-> {}, model |-> "",
              contents |-> [agent_name |-> "", system_prompt |-> planner_system_prompt,
                            prompt |-> NoPrompt]]

ORIGINAL_RECIPE == "Classic Beef Stroganoff: ..."
TARGET_STYLE == "Vegetarian Southeast Asian"

Recipes == {ORIGINAL_RECIPE, "2 cups sour cream, 1 cup beef broth", ""}
Styles == {TARGET_STYLE, "Vegan"}
Keys == {"", "AIza-key"}

----------------------------------------------------------------------------
(* State machine *)

NoToolCall == [amount |-> Zero, unit |-> NoneVal, result |-> [err |-> "none", n |-> Zero],
               done |-> FALSE]
NoMockCall == [request |-> NoRequest, response |-> Raised("none"), done |-> FALSE]

FreshLocals ==
    /\ planning_result = NoReturn
    /\ conversion_list = << >>
    /\ idx = 0
    /\ conversion_results = << >>
    /\ last_request = NoRequest
    /\ final_recipe_draft = NoReturn
    /\ printed = ""
    /\ returned = "<pending>"
    /\ error = "none"
    /\ error_at = "none"
    /\ stylist_prompt = NoPrompt
    /\ planner_calls = 0
    /\ tool_calls = 0
    /\ stylist_calls = 0

\* the interpreter is about to execute the module body
Init ==
    /\ API_KEY \in Keys
    /\ init_raises \in BOOLEAN
    /\ (API_KEY = "" => ~init_raises)
    /\ stdout_encodes \in BOOLEAN
    /\ client = "unset"
    /\ API_MODEL_NAME = LIVE_MODEL_NAME
    /\ load_error = "none"
    /\ pc = "load"
    /\ run = 0
    /\ original_recipe = ""
    /\ target_style = ""
    /\ FreshLocals
    /\ tool_call = NoToolCall
    /\ mock_call = NoMockCall

\* lines 63-77: client selection at module load.  Each branch ends with a
\* print of a message that starts with an emoji.  The print of line 69 is
\* inside the try, so its UnicodeEncodeError is handled like a failed
\* initialization; the prints of lines 73 and 77 are outside any handler, so
\* theirs leaves the module body: the module is not loaded and the workflow
\* cannot be called.  (The codecs that encode one of the messages encode all
\* the messages of the module, so the workflow's own prints succeed whenever
\* the module has loaded.)
SelectClient ==
    /\ pc = "load"
    /\ IF API_KEY /= "" /\ ~init_raises /\ stdout_encodes
       THEN /\ client' = "live"
            /\ UNCHANGED API_MODEL_NAME
       ELSE /\ client' = "mock"
            /\ API_MODEL_NAME' = MOCK_MODEL_NAME
    /\ IF stdout_encodes
       THEN /\ load_error' = "none"
            /\ pc' = "idle"
       ELSE /\ load_error' = "UnicodeEncodeError"
            /\ pc' = "crashed"
    /\ UNCHANGED <<API_KEY, init_raises, stdout_encodes, run, original_recipe, target_style,
                   planning_result, conversion_list, idx, conversion_results, last_request,
                   final_recipe_draft, printed, returned, error, error_at, stylist_prompt,
                   planner_calls, tool_calls, stylist_calls, tool_call, mock_call>>

\* a caller invokes run_recipe_adapter_workflow(recipe, style): fresh locals
StartRun ==
    /\ pc \in {"idle", "DONE", "FAILED"}
    /\ run < MaxRuns
    /\ \E recipe \in Recipes, style \in Styles :
          /\ original_recipe' = recipe
          /\ target_style' = style
    /\ run' = run + 1
    /\ pc' = "PLANNING"
    /\ planning_result' = NoReturn
    /\ conversion_list' = << >>
    /\ idx' = 0
    /\ conversion_results' = << >>
    /\ last_request' = NoRequest
    /\ final_recipe_draft' = NoReturn
    /\ printed' = ""
    /\ returned' = "<pending>"
    /\ error' = "none"
    /\ error_at' = "none"
    /\ stylist_prompt' = NoPrompt
    /\ planner_calls' = 0
    /\ tool_calls' = 0
    /\ stylist_calls' = 0
    /\ UNCHANGED <<load_vars, tool_call, mock_call>>

\* the exception e leaves the workflow while it is in stage `at`
Abort(e, at) ==
    /\ pc' = "FAILED"
    /\ error' = e
    /\ error_at' = at

\* lines 123-135: the Planner is invoked with the PlanningResult schema
PlannerCall ==
    /\ pc = "PLANNING"
    /\ LET req == run_agent_request("Planner_Agent", planner_system_prompt,
                                    planner_prompt(original_recipe, target_style),
                                    TRUE, API_MODEL_NAME)
       IN  /\ last_request' = req
           /\ planner_calls' = planner_calls + 1
           /\ \E resp \in generate_content(client, req) :
                 IF resp.err /= "none"
                 THEN /\ Abort(resp.err, "PLANNING")
                      /\ UNCHANGED planning_result
                 ELSE /\ planning_result' = run_agent_return(TRUE, resp)
                      /\ pc' = "CONVERTING"
                      /\ UNCHANGED <<error, error_at>>
    /\ UNCHANGED <<load_vars, run, original_recipe, target_style, conversion_list, idx,
                   conversion_results, final_recipe_draft, printed, returned,
                   stylist_prompt, tool_calls, stylist_calls, tool_call, mock_call>>

\* lines 138-141: the tool stage is announced and planning_result.conversion_list
\* is read; on None (or on a str) the attribute access raises AttributeError
ConvertStart ==
    /\ pc = "CONVERTING"
    /\ idx = 0
    /\ IF planning_result.kind /= "parsed" \/ planning_result.parsed.is_none
       THEN /\ Abort("AttributeError", "CONVERTING")
            /\ UNCHANGED <<conversion_list, idx>>
       ELSE /\ conversion_list' = planning_result.parsed.conversion_list
            /\ idx' = 1
            /\ UNCHANGED <<pc, error, error_at>>
    /\ UNCHANGED <<load_vars, run, original_recipe, target_style, planning_result,
                   conversion_results, last_request, final_recipe_draft, printed, returned,
                   stylist_prompt, planner_calls, tool_calls, stylist_calls, tool_call,
                   mock_call>>

\* lines 143-146: one iteration of the loop
ConvertStep ==
    /\ pc = "CONVERTING"
    /\ idx >= 1
    /\ idx <= Len(conversion_list)
    /\ \E c \in {ConvertEntry(conversion_list[idx])} :
           /\ tool_calls' = IF c.called THEN tool_calls + 1 ELSE tool_calls
           /\ IF c.err /= "none"
              THEN /\ Abort(c.err, "CONVERTING")
                   /\ UNCHANGED <<idx, conversion_results>>
              ELSE /\ idx' = idx + 1
                   /\ conversion_results' =
                          IF c.appended THEN Append(conversion_results, c.outcome)
                          ELSE conversion_results
                   /\ UNCHANGED <<pc, error, error_at>>
    /\ UNCHANGED <<load_vars, run, original_recipe, target_style, planning_result,
                   conversion_list, last_request, final_recipe_draft, printed, returned,
                   stylist_prompt, planner_calls, stylist_calls, tool_call, mock_call>>

\* lines 148-161: the loop is over; the Stylist prompt is built
EnterStyling_early ==
    /\ pc = "CONVERTING"
    /\ idx >= 1
    /\ stylist_prompt' = build_stylist_prompt(original_recipe, target_style,
                                              planning_result.parsed, conversion_results)
    /\ pc' = "STYLING"
    /\ UNCHANGED <<load_vars, run, original_recipe, target_style, planning_result,
                   conversion_list, idx, conversion_results, last_request,
                   final_recipe_draft, printed, returned, error, error_at, planner_calls,
                   tool_calls, stylist_calls, tool_call, mock_call>>

EnterStyling ==
    /\ pc = "CONVERTING"
    /\ idx > Len(conversion_list)
    /\ stylist_prompt' = build_stylist_prompt(original_recipe, target_style,
                                              planning_result.parsed, conversion_results)
    /\ pc' = "STYLING"
    /\ UNCHANGED <<load_vars, run, original_recipe, target_style, planning_result,
                   conversion_list, idx, conversion_results, last_request,
                   final_recipe_draft, printed, returned, error, error_at, planner_calls,
                   tool_calls, stylist_calls, tool_call, mock_call>>

\* lines 163-173: the Stylist is invoked without a schema; its text is printed
\* and the function ends without a return statement
StylistCall_retry ==
    /\ pc = "STYLING"
    /\ LET req == run_agent_request("Stylist_Agent", stylist_system_prompt(target_style),
                                    stylist_prompt, FALSE, API_MODEL_NAME)
       IN  /\ last_request' = req
           /\ stylist_calls' = stylist_calls + 1
           /\ \E resp \in generate_content(client, req) :
                 IF resp.err /= "none"
                 THEN /\ UNCHANGED <<pc, error, error_at>>
                      /\ UNCHANGED <<final_recipe_draft, printed, returned>>
                 ELSE /\ final_recipe_draft' = run_agent_return(FALSE, resp)
                      /\ printed' = PyStr(final_recipe_draft')
                      /\ returned' = "None"
                      /\ pc' = "DONE"
                      /\ UNCHANGED <<error, error_at>>
    /\ UNCHANGED <<load_vars, run, original_recipe, target_style, planning_result,
                   conversion_list, idx, conversion_results, stylist_prompt, planner_calls,
                   tool_calls, tool_call, mock_call>>

StylistCall ==
    /\ pc = "STYLING"
    /\ LET req == run_agent_request("Stylist_Agent", stylist_system_prompt(target_style),
                                    stylist_prompt, FALSE, API_MODEL_NAME)
       IN  /\ last_request' = req
           /\ stylist_calls' = stylist_calls + 1
           /\ \E resp \in generate_content(client, req) :
                 IF resp.err /= "none"
                 THEN /\ Abort(resp.err, "STYLING")
                      /\ UNCHANGED <<final_recipe_draft, printed, returned>>
                 ELSE /\ final_recipe_draft' = run_agent_return(FALSE, resp)
                      /\ printed' = PyStr(final_recipe_draft')
                      /\ returned' = "None"
                      /\ pc' = "DONE"
                      /\ UNCHANGED <<error, error_at>>
    /\ UNCHANGED <<load_vars, run, original_recipe, target_style, planning_result,
                   conversion_list, idx, conversion_results, stylist_prompt, planner_calls,
                   tool_calls, tool_call, mock_call>>

Next ==
    \/ SelectClient
    \/ StartRun
    \/ PlannerCall
    \/ ConvertStart
    \/ ConvertStep
    \/ EnterStyling
    \/ StylistCall

Spec == Init /\ [][Next]_vars

\* Mock mode: the environment has no credential, or the live client fails
\* to initialize.  The interpreter keeps executing a workflow that has
\* been entered, hence the weak fairness of its steps.
MockModeInit == Init /\ (API_KEY = "" \/ init_raises)

MockModeSpec ==
    /\ MockModeInit
    /\ [][Next]_vars
    /\ WF_vars(PlannerCall)
    /\ WF_vars(ConvertStart)
    /\ WF_vars(ConvertStep)
    /\ WF_vars(EnterStyling)
    /\ WF_vars(StylistCall)

----------------------------------------------------------------------------
(* Direct calls of the two pure operations, inputs drawn by the initial state *)

CupVariants == { <<a, b, c>> : a \in {"c", "C"}, b \in {"u", "U"}, c \in {"p", "P"} }
CupsVariants == { <<a, b, c, d>> : a \in {"c", "C"}, b \in {"u", "U"},
                                   c \in {"p", "P"}, d \in {"s", "S"} }
OtherUnits == { << >>, tbsp, grams, <<"c","u">>, <<"c","u","p","s","s">>,
                <<" ","c","u","p","s">>, <<"C","U","P","Z">>, <<"k","u","p">> }
ToolUnits == CupVariants \cup CupsVariants \cup OtherUnits

\* whole amounts as int and as float; 0.5, -0.25; 0.03 and 0.13, whose
\* products are rounded; 1e308 and the largest float, whose products are
\* infinite; the least positive float; the special floats
ToolAmounts ==
    { PyInt(a) : a \in (0 - MaxAmount)..MaxAmount }
    \cup { IntToFloat(PyInt(a)).n : a \in (0 - MaxAmount)..MaxAmount }
    \cup { DecimalToFloat(FALSE, << 5 >>, 0 - 1), DecimalToFloat(TRUE, << 25 >>, 0 - 2),
           DecimalToFloat(FALSE, << 3 >>, 0 - 2), DecimalToFloat(FALSE, << 13 >>, 0 - 2),
           DecimalToFloat(FALSE, << 1 >>, 308),
           Fin(FALSE, << 4095, 4095, 4095, 4095, 31 >>, 971),
           Fin(FALSE, << 1 >>, MinExp),
           NegZero, PosInf, NegInf, NaN }

QuietWorkflow ==
    /\ API_KEY = ""
    /\ init_raises = FALSE
    /\ stdout_encodes = TRUE
    /\ client = "unset"
    /\ API_MODEL_NAME = LIVE_MODEL_NAME
    /\ load_error = "none"
    /\ pc = "load"
    /\ run = 0
    /\ original_recipe = ""
    /\ target_style = ""
    /\ FreshLocals

ToolInit ==
    /\ QuietWorkflow
    /\ mock_call = NoMockCall
    /\ \E a \in ToolAmounts, u \in ToolUnits :
          tool_call = [amount |-> a, unit |-> Str(u),
                       result |-> [err |-> "none", n |-> Zero], done |-> FALSE]

\* unit_converter_tool(amount, unit) is called
CallTool ==
    /\ ~tool_call.done
    /\ tool_call' = [tool_call EXCEPT
                        !.result = unit_converter_tool(tool_call.amount, tool_call.unit),
                        !.done = TRUE]
    /\ UNCHANGED <<load_vars, workflow_vars, mock_call>>

ToolNext == CallTool

ToolSpec == ToolInit /\ [][ToolNext]_vars

MockContents ==
    { [agent_name |-> "Planner_Agent", system_prompt |-> planner_system_prompt,
       prompt |-> planner_prompt(r, st)] : r \in Recipes, st \in Styles }
    \cup
    { [agent_name |-> "Stylist_Agent", system_prompt |-> stylist_system_prompt(st),
       prompt |-> build_stylist_prompt(r, st, mock_data.value, << >>)] :
         r \in Recipes, st \in Styles }

ConfigKeys == {"response_mime_type", "response_schema", "temperature"}

MockRequests ==
    { [has_config |-> TRUE, config |-> c, model |-> m, contents |-> ct] :
        c \in SUBSET ConfigKeys, m \in {LIVE_MODEL_NAME, MOCK_MODEL_NAME}, ct \in MockContents }
    \cup
    { [has_config |-> FALSE, config |-> {}, model |-> m, contents |-> ct] :
        m \in {LIVE_MODEL_NAME, MOCK_MODEL_NAME}, ct \in MockContents }

MockInit ==
    /\ QuietWorkflow
    /\ tool_call = NoToolCall
    /\ \E req \in MockRequests :
          mock_call = [request |-> req, response |-> Raised("none"), done |-> FALSE]

\* MockClient().models.generate_content(**request) is called
CallMock ==
    /\ ~mock_call.done
    /\ mock_call' = [mock_call EXCEPT
                        !.response = MockModels_generate_content(mock_call.request),
                        !.done = TRUE]
    /\ UNCHANGED <<load_vars, workflow_vars, tool_call>>

MockNext == CallMock

MockSpec == MockInit /\ [][MockNext]_vars

----------------------------------------------------------------------------
(* Properties *)

InRun == pc \in {"PLANNING", "CONVERTING", "STYLING", "DONE", "FAILED"}

\* C1 (as stated): with the mock client, a finished run has returned to its
\* caller the non-empty Stylist text.
C1_ReturnsStylistText ==
    (client = "mock" /\ pc = "DONE") =>
        (returned = final_recipe_draft.text /\ returned /= "")

\* C1 (amended): with the mock client every run ends in DONE without an error,
\* and a finished run has printed a non-empty text that is the Stylist's
\* free-text output (the mock placeholder), not the Planner's structured
\* result; the call itself returns None to its caller.
C1_MockRunPrintsStylistText ==
    /\ [](client = "mock" =>
            /\ pc /= "FAILED"
            /\ error = "none"
            /\ (pc = "DONE" =>
                  /\ final_recipe_draft.kind = "text"
                  /\ final_recipe_draft.parsed = NoneResult
                  /\ printed = final_recipe_draft.text
                  /\ printed = MOCK_FINAL_TEXT
                  /\ printed /= ""
                  /\ printed /= MOCK_PLAN_TEXT
                  /\ last_request.contents.agent_name = "Stylist_Agent"
                  /\ returned = "None"))
    /\ ((client = "mock" /\ pc = "PLANNING") ~> (pc = "DONE"))

C1_Witness ==
    /\ client = "mock"
    /\ pc = "DONE"
    /\ run = 2
    /\ printed = MOCK_FINAL_TEXT
    /\ tool_calls = 1
    /\ conversion_results =
           << [original_amount |-> Flt(Fin(FALSE, << 1 >>, 1)), original_unit |-> Str(cups),
               converted_amount |-> Fin(FALSE, << 15 >>, 4), to_unit |-> Str(grams)] >>

\* C2 (as stated): when the Planner call returns output that failed validation
\* (parsed is None), no tool or Stylist call happens, STYLING is never entered,
\* and the run ends aborted in PLANNING with a SchemaValidationError.
C2_InvalidPlanAbortsInPlanning ==
    (planning_result.kind = "parsed" /\ planning_result.parsed.is_none) =>
        /\ pc \notin {"STYLING", "DONE"}
        /\ tool_calls = 0
        /\ stylist_calls = 0
        /\ (pc = "FAILED" => (error = "SchemaValidationError" /\ error_at = "PLANNING"))

\* C3 (as stated): once the module body has run, a missing credential or a
\* failed live-client initialization has left the mock client selected with
\* model name MOCK_MODEL, no error has escaped the module body, the workflow
\* can be called, and no run fails.
C3_FallbackToMock ==
    (pc /= "load" /\ (API_KEY = "" \/ init_raises)) =>
        /\ client = "mock"
        /\ API_MODEL_NAME = MOCK_MODEL_NAME
        /\ load_error = "none"
        /\ pc \in {"idle", "PLANNING", "CONVERTING", "STYLING", "DONE"}
        /\ error = "none"

\* an item is a mapping that has the key k
ContainsKey(conv, k) == conv.kind = "dict" /\ k \in conv.keys
ContainsAllKeys(conv) == \A k \in ConvKeys : ContainsKey(conv, k)

\* C4 (as stated): for every conversion list of a validated plan, an item
\* missing any of the three keys never aborts the run, and once the loop is
\* over the recorded outcomes are one per item that contains all three keys,
\* in list order.
C4_OutcomesAreTheCompleteEntries ==
    /\ (pc = "FAILED" /\ error_at = "CONVERTING" /\ idx >= 1) =>
           ContainsAllKeys(conversion_list[idx])
    /\ (pc \in {"FAILED", "STYLING", "DONE"} /\ idx >= 1) =>
           Len(conversion_results) =
               Cardinality({i \in 1..Len(conversion_list) :
                                ContainsAllKeys(conversion_list[i])})

\* the exponent of the last place of the finite float y
UlpExp(y) ==
    IF BigBitLen(y.m) + y.e - Precision > MinExp
    THEN BigBitLen(y.m) + y.e - Precision ELSE MinExp

\* y is the float x * 120 for a number x: a finite nonzero x gives the
\* float of the same sign within half a unit in the last place of the exact
\* product, or the infinity of that sign when the exact product is at or
\* beyond 2^1024 - 2^970, the least magnitude that rounds out of range; a
\* zero gives the float zero of the same sign; infinities and NaN keep
\* themselves
IsProduct120(x, y) ==
    IF x.k \in {"fin", "int"} /\ Len(x.m) > 0
    THEN /\ y.neg = x.neg
         /\ IF y.k = "fin"
            THEN LET t == UlpExp(y)
                     low == (IF x.e < t THEN x.e ELSE t) - 1
                     p == BigShl(BigMulSmall(x.m, 120, 0), x.e - low)
                     q == BigShl(y.m, y.e - low)
                     diff == IF BigCmp(p, q) >= 0 THEN BigSub(p, q) ELSE BigSub(q, p)
                 IN  BigCmp(diff, BigShl(<< 1 >>, t - 1 - low)) <= 0
            ELSE /\ y.k = "inf"
                 /\ x.e >= 900
                 /\ BigCmp(BigShl(BigMulSmall(x.m, 120, 0), x.e - 900),
                           BigSub(BigShl(<< 1 >>, 124), BigShl(<< 1 >>, 70))) >= 0
    ELSE IF x.k \in {"zero", "int"}
    THEN y = [k |-> "zero", neg |-> x.neg, m |-> << >>, e |-> 0]
    ELSE y = x

\* C5: a direct call of unit_converter_tool with any amount (negative and
\* zero included) and any unit string returns amount * 120 when the unit is a
\* case variant of "cup" or "cups", and the amount unchanged otherwise.  The
\* product is the one Python's float multiplication gives: the binary64 value
\* nearest to 120 times the amount, an infinity when that is out of range.
C5_ToolResult ==
    tool_call.done =>
        /\ tool_call.result.err = "none"
        /\ IF tool_call.unit.s \in (CupVariants \cup CupsVariants)
           THEN IsProduct120(tool_call.amount, tool_call.result.n)
           ELSE tool_call.result.n = tool_call.amount

C5_Witness ==
    /\ tool_call.done
    /\ tool_call.unit.s = CUPS_Upper
    /\ tool_call.amount = Fin(FALSE, << 983, 1802, 2621, 3440, 3 >>, 0 - 55)
    /\ tool_call.result.n = Fin(FALSE, << 819, 819, 819, 819, 7 >>, 0 - 49)

\* C6 (as stated): with a validated plan, CONVERTING never fails.
C6_ConvertingNeverFails ==
    (planning_result.kind = "parsed" /\ ~planning_result.parsed.is_none) =>
        ~(pc = "FAILED" /\ error_at = "CONVERTING")

----------------------------------------------------------------------------
(* The text of a plan and its parse, for the round trip of C7: the plan   *)
(* is dumped with model_dump, written with json.dumps, read with          *)
(* json.loads and validated again.  Numbers are written as Python writes  *)
(* them (str of an int, repr of a float) and read as Python reads them.   *)

\* the remainder of the number a[i..Len(a)] (as limbs) by d
RECURSIVE BigRemAt(_, _, _)
BigRemAt(a, d, i) ==
    IF i > Len(a) THEN 0 ELSE (BigRemAt(a, d, i + 1) * Base + a[i]) % d

\* a \div d for 0 < d < 2^19
BigDivSmall(a0, d0) ==
    Strict2(LAMBDA a, d :
        BigNorm([i \in 1..Len(a) |-> (BigRemAt(a, d, i + 1) * Base + a[i]) \div d]),
        a0, d0)

\* the decimal digits of the natural number a, none for zero
RECURSIVE BigToDigits(_)
BigToDigits(a0) ==
    Strict1(LAMBDA a :
        IF Len(a) = 0 THEN << >>
        ELSE Append(BigToDigits(BigDivSmall(a, 10)), Digits[BigRemAt(a, 10, 1) + 1]),
        a0)

\* the quotient of num by den, below 2^66, in six runs of 11 bits, with
\* what is left of the dividend
FloorDivide(num0, den0) ==
    Strict2(LAMBDA num, t :
        LET s1 == DivBits([r |-> num, q |-> << >>], t, 11)
            s2 == Strict3(DivBits, s1, t, 11)
            s3 == Strict3(DivBits, s2, t, 11)
            s4 == Strict3(DivBits, s3, t, 11)
            s5 == Strict3(DivBits, s4, t, 11)
        IN  Strict3(DivBits, s5, t, 11),
        num0, BigShl(den0, 65))

\* floor(log10(2^n)) for -1100 <= n <= 1100
Log10Pow2(n) ==
    IF n >= 0 THEN (n * 30103) \div 100000
    ELSE 0 - (((0 - n) * 30103 + 99999) \div 100000)

\* the finite float x > 0 times 10^p, as the floor and what is left
ScaledBy10(x, p) ==
    FloorDivide(BigMul(IF x.e >= 0 THEN BigShl(x.m, x.e) ELSE x.m,
                       IF p >= 0 THEN BigPow10(p) ELSE << 1 >>),
                BigMul(IF x.e < 0 THEN BigShl(<< 1 >>, 0 - x.e) ELSE << 1 >>,
                       IF p < 0 THEN BigPow10(0 - p) ELSE << 1 >>))

\* the leading 18 decimal digits of |x|, truncated: [d, k, more] with
\* 0.d * 10^k <= |x|, and more telling that the digits stop short of |x|
LeadingDigits(x0) ==
    Strict2(LAMBDA x, est :
        Strict2(LAMBDA st, k1 :
            Strict1(LAMBDA ds :
                IF Len(ds) = 19
                THEN [d |-> SubSeq(ds, 1, 18), k |-> k1 + 1,
                      more |-> Len(st.r) > 0 \/ ds[19] /= "0"]
                ELSE [d |-> ds, k |-> k1, more |-> Len(st.r) > 0],
                BigToDigits(st.q)),
            ScaledBy10(x, 17 - est), est + 1),
        x0, Log10Pow2(BigBitLen(x0.m) + x0.e - 1))

\* d + 1 on decimal digits, with a leading 1 when every digit is 9
RECURSIVE DigitsSucc(_)
DigitsSucc(d) ==
    IF Len(d) = 0 THEN << "1" >>
    ELSE IF d[Len(d)] = "9" THEN Append(DigitsSucc(SubSeq(d, 1, Len(d) - 1)), "0")
    ELSE [d EXCEPT ![Len(d)] = Digits[DigitVal(d[Len(d)]) + 2]]

\* float(text) gives back |x| for the digits d scaled by 10^s
ReadsBack(x, d, s) == DecimalToFloat(FALSE, BigFromDigits(d), s) = Fin(FALSE, x.m, x.e)

\* the shortest digits that read back as |x|, the nearest to |x| among
\* them (of two equally near, the one ending in an even digit), from n
\* digits on: [d, k] for 0.d * 10^k
RECURSIVE ShortestFrom(_, _, _)
ShortestFrom(x, t, n) ==
    LET lo == SubSeq(t.d, 1, n)
        hi == DigitsSucc(lo)
        restZero == ~t.more /\ \A i \in (n + 2)..18 : t.d[i] = "0"
        next == DigitVal(t.d[n + 1])
        upper == next > 5 \/ (next = 5 /\ ~restZero)
                     \/ (next = 5 /\ restZero /\ DigitVal(lo[n]) % 2 = 1)
        down == [d |-> lo, k |-> t.k]
        up == [d |-> IF Len(hi) > n THEN << "1" >> ELSE hi,
               k |-> IF Len(hi) > n THEN t.k + 1 ELSE t.k]
    IN  IF next = 0 /\ restZero THEN down
        ELSE IF upper
        THEN (IF ReadsBack(x, hi, t.k - n) THEN up
              ELSE IF ReadsBack(x, lo, t.k - n) THEN down
              ELSE ShortestFrom(x, t, n + 1))
        ELSE (IF ReadsBack(x, lo, t.k - n) THEN down
              ELSE IF ReadsBack(x, hi, t.k - n) THEN up
              ELSE ShortestFrom(x, t, n + 1))

Zeros(n) == [i \in 1..n |-> "0"]

\* a small natural number in decimal, at least two digits
TwoDigits(n) == IF n < 10 THEN << "0", Digits[n + 1] >> ELSE BigToDigits(BigCarry(<< n >>))

\* repr of digits 0.d * 10^k: positional for -4 < k <= 16, else with an exponent
FormatShortest(d, k) ==
    IF k <= 0 - 4 \/ k > 16
    THEN << d[1] >> \o (IF Len(d) > 1 THEN << "." >> \o Tail(d) ELSE << >>)
         \o << "e", IF k - 1 < 0 THEN "-" ELSE "+" >>
         \o TwoDigits(IF k - 1 < 0 THEN 1 - k ELSE k - 1)
    ELSE IF k <= 0 THEN << "0", "." >> \o Zeros(0 - k) \o d
    ELSE IF k >= Len(d) THEN d \o Zeros(k - Len(d)) \o << ".", "0" >>
    ELSE SubSeq(d, 1, k) \o << "." >> \o SubSeq(d, k + 1, Len(d))

\* repr(x) of a float x
FloatRepr(x0) ==
    Strict1(LAMBDA x :
        CASE x.k = "nan" -> << "n", "a", "n" >>
          [] x.k = "inf" -> (IF x.neg THEN << "-" >> ELSE << >>) \o << "i", "n", "f" >>
          [] x.k = "zero" -> (IF x.neg THEN << "-" >> ELSE << >>) \o << "0", ".", "0" >>
          [] OTHER ->
               Strict1(LAMBDA r : (IF x.neg THEN << "-" >> ELSE << >>) \o FormatShortest(r.d, r.k),
                       ShortestFrom(x, LeadingDigits(x), 1)),
        x0)

\* the characters with code 1 to 255, in order of code
Latin1 ==
    << "", "", "", "", "", "", "", "", "\t", "\n", "", "\f", "\r", "", "",
     "", "", "", "", "", "", "", "", "", "", "", "", "", "", "", "",
     " ", "!", "\"", "#", "$", "%", "&", "'", "(", ")", "*", "+", ",", "-", ".", "/",
     "0", "1", "2", "3", "4", "5", "6", "7", "8", "9", ":", ";", "<", "=", ">", "?",
     "@", "A", "B", "C", "D", "E", "F", "G", "H", "I", "J", "K", "L", "M", "N", "O",
     "P", "Q", "R", "S", "T", "U", "V", "W", "X", "Y", "Z", "[", "\\", "]", "^", "_",
     "", "a", "b", "c", "d", "e", "f", "g", "h", "i", "j", "k", "l", "m", "n", "o",
     "p", "q", "r", "s", "t", "u", "v", "w", "x", "y", "z", "{", "|", "}", "~", "",
     "", "", "", "", "", "", "", "", "", "", "", "", "", "", "", "",
     "", "", "", "", "", "", "", "", "", "", "", "", "", "", "", "",
     " ", "¡", "¢", "£", "¤", "¥", "¦", "§", "¨", "©", "ª", "«", "¬", "­", "®", "¯",
     "°", "±", "²", "³", "´", "µ", "¶", "·", "¸", "¹", "º", "»", "¼", "½", "¾", "¿",
     "À", "Á", "Â", "Ã", "Ä", "Å", "Æ", "Ç", "È", "É", "Ê", "Ë", "Ì", "Í", "Î", "Ï",
     "Ð", "Ñ", "Ò", "Ó", "Ô", "Õ", "Ö", "×", "Ø", "Ù", "Ú", "Û", "Ü", "Ý", "Þ", "ß",
     "à", "á", "â", "ã", "ä", "å", "æ", "ç", "è", "é", "ê", "ë", "ì", "í", "î", "ï",
     "ð", "ñ", "ò", "ó", "ô", "õ", "ö", "÷", "ø", "ù", "ú", "û", "ü", "ý", "þ", "ÿ" >>

\* ord(c)
Ord(c) == CHOOSE i \in 1..255 : Latin1[i] = c

HexDigits == << "0", "1", "2", "3", "4", "5", "6", "7", "8", "9", "a", "b", "c", "d", "e", "f" >>
UpperHexDigits == << "0", "1", "2", "3", "4", "5", "6", "7", "8", "9", "A", "B", "C", "D", "E", "F" >>
IsHexDigit(c) == \E i \in 1..16 : HexDigits[i] = c \/ UpperHexDigits[i] = c
HexVal(c) == (CHOOSE i \in 1..16 : HexDigits[i] = c \/ UpperHexDigits[i] = c) - 1

\* the pieces of a sequence of texts put one after the other
RECURSIVE Concat(_)
Concat(pieces0) ==
    Strict1(LAMBDA pieces :
        IF Len(pieces) = 0 THEN << >>
        ELSE IF Len(pieces) = 1 THEN pieces[1]
        ELSE Concat(SubSeq(pieces, 1, Len(pieces) \div 2))
             \o Concat(SubSeq(pieces, Len(pieces) \div 2 + 1, Len(pieces))),
        pieces0)

\* the pieces with sep between neighbours
JoinText(pieces, sep) ==
    Concat([i \in 1..(IF Len(pieces) = 0 THEN 0 ELSE 2 * Len(pieces) - 1) |->
               IF i % 2 = 1 THEN pieces[(i + 1) \div 2] ELSE sep])

\* json.dumps on one character of a str (ensure_ascii): the quote, the
\* backslash and everything outside " " to "~" are escaped
EscapeChar(c) ==
    CASE c = "\"" -> << "\\", "\"" >>
      [] c = "\\" -> << "\\", "\\" >>
      [] c = "\n" -> << "\\", "n" >>
      [] c = "\r" -> << "\\", "r" >>
      [] c = "\t" -> << "\\", "t" >>
      [] c = "\f" -> << "\\", "f" >>
      [] c = Latin1[8] -> << "\\", "b" >>
      [] OTHER -> IF Ord(c) >= 32 /\ Ord(c) <= 126 THEN << c >>
                  ELSE << "\\", "u", "0", "0", HexDigits[(Ord(c) \div 16) + 1],
                          HexDigits[(Ord(c) % 16) + 1] >>

\* json.dumps(s) for a str s
JsonString(s) == << "\"" >> \o Concat([i \in 1..Len(s) |-> EscapeChar(s[i])]) \o << "\"" >>

\* json.dumps(n) for a number: str(n) for an int, repr(n) for a finite
\* float, and the names NaN, Infinity, -Infinity
JsonNumber(n) ==
    CASE n.k = "int" -> IF Len(n.m) = 0 THEN << "0" >>
                        ELSE (IF n.neg THEN << "-" >> ELSE << >>) \o BigToDigits(n.m)
      [] n.k = "nan" -> << "N", "a", "N" >>
      [] n.k = "inf" -> (IF n.neg THEN << "-" >> ELSE << >>)
                        \o << "I", "n", "f", "i", "n", "i", "t", "y" >>
      [] OTHER -> FloatRepr(n)

\* json.dumps(v) for a str, a number or None
JsonScalar(v) ==
    CASE v.t = "str" -> JsonString(v.s)
      [] v.t = "num" -> JsonNumber(v.n)
      [] OTHER -> << "n", "u", "l", "l" >>

\* a key of the plan's mappings as a str
NameText(name) ==
    CASE
         name = "conversion_list" -> << "c", "o", "n", "v", "e", "r", "s", "i", "o", "n", "_", "l", "i", "s", "t" >>
      [] name = "substitution_map" -> << "s", "u", "b", "s", "t", "i", "t", "u", "t", "i", "o", "n", "_", "m", "a", "p" >>
      [] name = "amount" -> << "a", "m", "o", "u", "n", "t" >>
      [] name = "unit" -> << "u", "n", "i", "t" >>
      [] name = "to_unit" -> << "t", "o", "_", "u", "n", "i", "t" >>
      [] name = "original_ingredient" -> << "o", "r", "i", "g", "i", "n", "a", "l", "_", "i", "n", "g", "r", "e", "d", "i", "e", "n", "t" >>
      [] name = "substitute" -> << "s", "u", "b", "s", "t", "i", "t", "u", "t", "e" >>
      [] name = "reason" -> << "r", "e", "a", "s", "o", "n" >>

ConvKeyOrder == << "amount", "unit", "to_unit" >>
SubKeyOrder == << "original_ingredient", "substitute", "reason" >>
PlanKeyOrder == << "conversion_list", "substitution_map" >>

\* json.dumps of a mapping: the members present, given as texts of values
JsonObject(order, has, text) ==
    << "{" >>
    \o JoinText([i \in 1..Len(SelectSeq(order, LAMBDA k : k \in has)) |->
                    JsonString(NameText(SelectSeq(order, LAMBDA k : k \in has)[i]))
                    \o << ":", " " >>
                    \o text[SelectSeq(order, LAMBDA k : k \in has)[i]]],
                << ",", " " >>)
    \o << "}" >>

JsonArray(texts) == << "[" >> \o JoinText(texts, << ",", " " >>) \o << "]" >>

\* json.dumps of a conversion_list item
JsonConv(c) ==
    CASE c.kind = "none" -> << "n", "u", "l", "l" >>
      [] c.kind = "list" ->
             JsonArray([i \in 1..Len(SelectSeq(ConvKeyOrder, LAMBDA k : k \in c.keys)) |->
                           JsonString(NameText(SelectSeq(ConvKeyOrder,
                                                         LAMBDA k : k \in c.keys)[i]))])
      [] OTHER ->
             JsonObject(ConvKeyOrder, c.keys,
                        [k \in ConvKeys |->
                            JsonScalar(IF k = "amount" THEN c.amount
                                       ELSE IF k = "unit" THEN c.unit ELSE c.to_unit)])

\* json.dumps of the dump of a Substitution
JsonSub(d) ==
    JsonObject(SubKeyOrder, d.has,
               [k \in SubstitutionFields |->
                   JsonScalar(IF k = "original_ingredient" THEN d.original_ingredient
                              ELSE IF k = "substitute" THEN d.substitute ELSE d.reason)])

\* json.dumps(plan.model_dump()): the text of the dump of a plan
json_dumps(dump) ==
    JsonObject(PlanKeyOrder, dump.has,
               [k \in PlanningResultFields |->
                   IF k = "conversion_list"
                   THEN JsonArray([i \in 1..Len(dump.conversion_list.items) |->
                                      JsonConv(dump.conversion_list.items[i])])
                   ELSE JsonArray([i \in 1..Len(dump.substitution_map.items) |->
                                      JsonSub(dump.substitution_map.items[i])])])

JsonWhitespace == {" ", "\t", "\n", "\r"}

\* the first position from i on that holds no whitespace, Len(text) + 1 if none
SkipSpace(text, i) ==
    CHOOSE j \in i..(Len(text) + 1) :
        /\ (j = Len(text) + 1 \/ text[j] \notin JsonWhitespace)
        /\ \A k \in i..(j - 1) : text[k] \in JsonWhitespace

StartsWith(text, i, word) ==
    /\ i + Len(word) - 1 <= Len(text)
    /\ SubSeq(text, i, i + Len(word) - 1) = word

\* the number of backslashes in a row in text[from..k] that end at position k
RECURSIVE BackslashRun(_, _, _)
BackslashRun(text, from, k) ==
    IF k < from \/ text[k] /= "\\" THEN 0 ELSE 1 + BackslashRun(text, from, k - 1)

\* position j closes the str that opens at position i
ClosesString(text, i, j) == text[j] = "\"" /\ BackslashRun(text, i + 1, j - 1) % 2 = 0

\* the position of the quote that closes the str opening at i, 0 if none
StringEnd(text, i) ==
    IF \E j \in (i + 1)..Len(text) : ClosesString(text, i, j)
    THEN CHOOSE j \in (i + 1)..Len(text) :
             ClosesString(text, i, j) /\ \A l \in (i + 1)..(j - 1) : ~ClosesString(text, i, l)
    ELSE 0

SimpleEscapes == {"\"", "\\", "/", "b", "f", "n", "r", "t"}

\* the character an escape stands for: c is the text between the quotes and
\* p the position of the backslash
Unescaped(c, p) ==
    CASE c[p + 1] = "n" -> "\n"
      [] c[p + 1] = "r" -> "\r"
      [] c[p + 1] = "t" -> "\t"
      [] c[p + 1] = "f" -> "\f"
      [] c[p + 1] = "b" -> Latin1[8]
      [] c[p + 1] = "u" -> Latin1[16 * HexVal(c[p + 4]) + HexVal(c[p + 5])]
      [] OTHER -> c[p + 1]

\* a well-formed escape at position p that stands for a character of code
\* 1 to 255 (four hex digits after u)
IsEscape(c, p) ==
    /\ p + 1 <= Len(c)
    /\ \/ c[p + 1] \in SimpleEscapes
       \/ /\ c[p + 1] = "u"
          /\ p + 5 <= Len(c)
          /\ \A d \in 2..5 : IsHexDigit(c[p + d])
          /\ c[p + 2] = "0" /\ c[p + 3] = "0"
          /\ 16 * HexVal(c[p + 4]) + HexVal(c[p + 5]) \notin {0, 96}

\* the str written between the quotes as c (json.loads, strict): escapes
\* are replaced, a control character written as itself is an error
Unescape(c0) ==
    Strict1(LAMBDA c :
        Strict1(LAMBDA start :
            Strict1(LAMBDA emit :
                IF /\ \A p \in start : IsEscape(c, p)
                   /\ \A p \in emit \ start : Ord(c[p]) >= 32
                THEN [ok |-> TRUE,
                      s |-> [r \in 1..Cardinality(emit) |->
                                LET p == CHOOSE q \in emit :
                                             Cardinality({w \in emit : w <= q}) = r
                                IN  IF p \in start THEN Unescaped(c, p) ELSE c[p]]]
                ELSE [ok |-> FALSE, s |-> << >>],
                (1..Len(c)) \ ({p + 1 : p \in start}
                               \cup {p + d : p \in {q \in start : q + 1 <= Len(c) /\ c[q + 1] = "u"},
                                             d \in 2..5})),
            {p \in 1..Len(c) : c[p] = "\\" /\ BackslashRun(c, 1, p - 1) % 2 = 0}),
        c0)

NumberChars == {"-", "+", ".", "e", "E", "0", "1", "2", "3", "4", "5", "6", "7", "8", "9"}

\* the last position of the run of number characters that starts at i
NumberEnd(text, i) ==
    CHOOSE j \in (i - 1)..Len(text) :
        /\ \A k \in i..j : text[k] \in NumberChars
        /\ (j = Len(text) \/ text[j + 1] \notin NumberChars)

AllDigits(s) == Len(s) > 0 /\ \A i \in 1..Len(s) : IsDigit(s[i])

\* the parts of a number token: sign, integer part, fraction (without the
\* point), exponent (without e and sign)
NumberParts(tok) ==
    LET neg == Len(tok) > 0 /\ tok[1] = "-"
        body == IF neg THEN Tail(tok) ELSE tok
        ePos == FirstIndex(body, {"e", "E"})
        mant == IF ePos = 0 THEN body ELSE SubSeq(body, 1, ePos - 1)
        expo == IF ePos = 0 THEN << >> ELSE SubSeq(body, ePos + 1, Len(body))
        dotPos == FirstIndex(mant, {"."})
    IN  [neg |-> neg,
         ip |-> IF dotPos = 0 THEN mant ELSE SubSeq(mant, 1, dotPos - 1),
         hasFrac |-> dotPos /= 0,
         fp |-> IF dotPos = 0 THEN << >> ELSE SubSeq(mant, dotPos + 1, Len(mant)),
         hasExp |-> ePos /= 0,
         ex |-> IF Len(expo) > 0 /\ expo[1] \in {"+", "-"} THEN Tail(expo) ELSE expo]

\* the JSON grammar of a number: -? (0 | [1-9] digits) (. digits)? ([eE] [+-]? digits)?
IsJsonNumber(n) ==
    /\ AllDigits(n.ip)
    /\ (Len(n.ip) = 1 \/ n.ip[1] /= "0")
    /\ (n.hasFrac => AllDigits(n.fp))
    /\ (n.hasExp => AllDigits(n.ex))

\* the value of a number token: an int when it has neither fraction nor
\* exponent, else float(token)
NumberValue(tok, n) ==
    IF ~n.hasFrac /\ ~n.hasExp
    THEN Strict1(LAMBDA m : [k |-> "int", neg |-> n.neg /\ Len(m) > 0, m |-> m, e |-> 0],
                 BigFromDigits(n.ip))
    ELSE FloatOfStripped(tok).n

\* a parsed JSON value: None, a str s, a number n, a list of items, a
\* mapping with keys and items side by side, or a bool
Node(t, n, s, items, keys) == [t |-> t, n |-> n, s |-> s, items |-> items, keys |-> keys]
NullNode == Node("none", Zero, << >>, << >>, << >>)

\* the outcome of parsing a value: v and the position after it
Parsed(v, next) == [ok |-> TRUE, v |-> v, next |-> next]
NotJson == [ok |-> FALSE, v |-> NullNode, next |-> 0]

ParseString(text, i) ==
    Strict1(LAMBDA j :
        IF j = 0 THEN NotJson
        ELSE Strict1(LAMBDA u :
                 IF u.ok THEN Parsed(Node("str", Zero, u.s, << >>, << >>), j + 1)
                 ELSE NotJson,
                 Unescape(SubSeq(text, i + 1, j - 1))),
        StringEnd(text, i))

ParseNumber(text, i) ==
    Strict1(LAMBDA j :
        Strict1(LAMBDA tok :
            Strict1(LAMBDA n :
                IF IsJsonNumber(n)
                THEN Parsed(Node("num", NumberValue(tok, n), << >>, << >>, << >>), j + 1)
                ELSE NotJson,
                NumberParts(tok)),
            SubSeq(text, i, j)),
        NumberEnd(text, i))

Words ==
    << [w |-> << "n", "u", "l", "l" >>, v |-> NullNode],
       [w |-> << "t", "r", "u", "e" >>, v |-> Node("bool", Zero, << "1" >>, << >>, << >>)],
       [w |-> << "f", "a", "l", "s", "e" >>, v |-> Node("bool", Zero, << "0" >>, << >>, << >>)],
       [w |-> << "N", "a", "N" >>, v |-> Node("num", NaN, << >>, << >>, << >>)],
       [w |-> << "I", "n", "f", "i", "n", "i", "t", "y" >>,
        v |-> Node("num", PosInf, << >>, << >>, << >>)],
       [w |-> << "-", "I", "n", "f", "i", "n", "i", "t", "y" >>,
        v |-> Node("num", NegInf, << >>, << >>, << >>)] >>

\* json.loads on the value that starts at position i of text
RECURSIVE ParseValue(_, _)
RECURSIVE ParseItems(_, _, _)
RECURSIVE ParseMembers(_, _, _, _)

\* the items of a list from position i on, after the items acc
ParseItems(text, i, acc) ==
    Strict1(LAMBDA r :
        IF ~r.ok THEN NotJson
        ELSE Strict1(LAMBDA j :
                 IF j > Len(text) THEN NotJson
                 ELSE IF text[j] = "]"
                 THEN Parsed(Node("arr", Zero, << >>, Append(acc, r.v), << >>), j + 1)
                 ELSE IF text[j] = ","
                 THEN ParseItems(text, SkipSpace(text, j + 1), Append(acc, r.v))
                 ELSE NotJson,
                 SkipSpace(text, r.next)),
        ParseValue(text, i))

\* the members of a mapping from position i on, after those in keys and vals
ParseMembers(text, i, keys, vals) ==
    IF i > Len(text) \/ text[i] /= "\"" THEN NotJson
    ELSE Strict1(LAMBDA k :
             IF ~k.ok THEN NotJson
             ELSE Strict1(LAMBDA c :
                      IF c > Len(text) \/ text[c] /= ":" THEN NotJson
                      ELSE Strict1(LAMBDA r :
                               IF ~r.ok THEN NotJson
                               ELSE Strict1(LAMBDA j :
                                        IF j > Len(text) THEN NotJson
                                        ELSE IF text[j] = "}"
                                        THEN Parsed(Node("obj", Zero, << >>, Append(vals, r.v),
                                                         Append(keys, k.v.s)), j + 1)
                                        ELSE IF text[j] = ","
                                        THEN ParseMembers(text, SkipSpace(text, j + 1),
                                                          Append(keys, k.v.s), Append(vals, r.v))
                                        ELSE NotJson,
                                        SkipSpace(text, r.next)),
                               ParseValue(text, SkipSpace(text, c + 1))),
                      SkipSpace(text, k.next)),
             ParseString(text, i))

ParseValue(text, i) ==
    IF i > Len(text) THEN NotJson
    ELSE IF text[i] = "\"" THEN ParseString(text, i)
    ELSE IF text[i] = "["
    THEN Strict1(LAMBDA j :
             IF j <= Len(text) /\ text[j] = "]"
             THEN Parsed(Node("arr", Zero, << >>, << >>, << >>), j + 1)
             ELSE ParseItems(text, j, << >>),
             SkipSpace(text, i + 1))
    ELSE IF text[i] = "{"
    THEN Strict1(LAMBDA j :
             IF j <= Len(text) /\ text[j] = "}"
             THEN Parsed(Node("obj", Zero, << >>, << >>, << >>), j + 1)
             ELSE ParseMembers(text, j, << >>, << >>),
             SkipSpace(text, i + 1))
    ELSE IF \E w \in 1..Len(Words) : StartsWith(text, i, Words[w].w)
    THEN LET w == CHOOSE w \in 1..Len(Words) : StartsWith(text, i, Words[w].w)
         IN  Parsed(Words[w].v, i + Len(Words[w].w))
    ELSE ParseNumber(text, i)

\* json.loads(text): the one value of the text, with whitespace around it
ParseJson(text) ==
    Strict1(LAMBDA r :
        IF r.ok /\ SkipSpace(text, r.next) = Len(text) + 1 THEN r ELSE NotJson,
        ParseValue(text, SkipSpace(text, 1)))

HasMember(node, name) == \E i \in 1..Len(node.keys) : node.keys[i] = NameText(name)

\* the value under a key; of two members with the same key the later one
Member(node, name) ==
    node.items[CHOOSE i \in 1..Len(node.keys) :
                   /\ node.keys[i] = NameText(name)
                   /\ \A j \in (i + 1)..Len(node.keys) : node.keys[j] /= NameText(name)]

IsScalar(node) == node.t \in {"none", "str", "num"}
ScalarOf(node) ==
    CASE node.t = "str" -> Str(node.s)
      [] node.t = "num" -> Flt(node.n)
      [] OTHER -> NoneVal

\* the value under a key as a str, a number or None; None for a missing key
MemberOrNone(node, name) ==
    IF HasMember(node, name) THEN ScalarOf(Member(node, name)) ELSE NoneVal

\* the items the model has for a conversion_list: None, a list of strs, a
\* mapping whose amount, unit and to_unit are strs, numbers or None
IsConv(node) ==
    \/ node.t = "none"
    \/ node.t = "arr" /\ \A i \in 1..Len(node.items) : node.items[i].t = "str"
    \/ node.t = "obj" /\ \A k \in ConvKeys : HasMember(node, k) => IsScalar(Member(node, k))

ConvOf(node) ==
    CASE node.t = "none" -> Conv("none", {}, NoneVal, NoneVal, NoneVal)
      [] node.t = "arr" ->
             Conv("list",
                  {k \in ConvKeys : \E i \in 1..Len(node.items) : node.items[i].s = NameText(k)},
                  NoneVal, NoneVal, NoneVal)
      [] OTHER ->
             Conv("dict", {k \in ConvKeys : HasMember(node, k)},
                  MemberOrNone(node, "amount"), MemberOrNone(node, "unit"),
                  MemberOrNone(node, "to_unit"))

IsRawSub(node) ==
    node.t = "obj" /\ \A k \in SubstitutionFields : HasMember(node, k) => IsScalar(Member(node, k))

RawSubOf(node) ==
    RawSub({k \in SubstitutionFields : HasMember(node, k)},
           MemberOrNone(node, "original_ingredient"), MemberOrNone(node, "substitute"),
           MemberOrNone(node, "reason"))

\* the field of the keyword arguments under name: whether it is a list, and its items
ListField(node, name, IsItem(_), ItemOf(_)) ==
    IF HasMember(node, name) /\ Member(node, name).t = "arr"
    THEN [ok |-> \A i \in 1..Len(Member(node, name).items) : IsItem(Member(node, name).items[i]),
          is_list |-> TRUE,
          items |-> [i \in 1..Len(Member(node, name).items) |->
                        ItemOf(Member(node, name).items[i])]]
    ELSE [ok |-> TRUE, is_list |-> FALSE, items |-> << >>]

\* json.loads(text) as keyword arguments for PlanningResult: ok says that
\* the text is JSON for a mapping whose values the model has
json_loads(text) ==
    Strict1(LAMBDA r :
        IF ~r.ok \/ r.v.t /= "obj"
        THEN [ok |-> FALSE, raw |-> RawPlan({}, FALSE, << >>, FALSE, << >>)]
        ELSE Strict2(LAMBDA cl, sm :
                 [ok |-> cl.ok /\ sm.ok,
                  raw |-> RawPlan({k \in PlanningResultFields : HasMember(r.v, k)},
                                  cl.is_list, cl.items, sm.is_list, sm.items)],
                 ListField(r.v, "conversion_list", IsConv, ConvOf),
                 ListField(r.v, "substitution_map", IsRawSub, RawSubOf)),
        ParseJson(text))

\* PlanningResult(**json.loads(json.dumps(plan.model_dump())))
RoundTrip(plan) ==
    Strict1(LAMBDA r : IF r.ok THEN PlanningResult(r.raw) ELSE [ok |-> FALSE, value |-> NoneResult],
            json_loads(json_dumps(PlanningResult_model_dump(plan))))

ExpectedMockPlan ==
    [is_none |-> FALSE,
     conversion_list |->
         << [kind |-> "dict", keys |-> {"amount", "unit", "to_unit"},
             amount |-> Flt(Fin(FALSE, << 1 >>, 1)), unit |-> Str(cups), to_unit |-> Str(grams)] >>,
     substitution_map |->
         << [original_ingredient |-> Str(BeefChuck), substitute |-> Str(FirmTofu),
             reason |-> Str(VegReason)],
            [original_ingredient |-> Str(SourCream), substitute |-> Str(CoconutMilk),
             reason |-> Str(DairyReason)] >>]

\* C7: the mock's answer depends only on whether the request's config has a
\* response_schema: with one, the answer carries the one default plan, which
\* validates against the schema and comes back unchanged, value for value
\* and type for type, when its dump is written as JSON text, read again and
\* validated; without one, the answer is the fixed placeholder text and None.
C7_MockAnswer ==
    mock_call.done =>
        IF mock_call.request.has_config /\ "response_schema" \in mock_call.request.config
        THEN /\ mock_call.response.err = "none"
             /\ mock_call.response.text = MOCK_PLAN_TEXT
             /\ mock_call.response.parsed = ExpectedMockPlan
             /\ RoundTrip(mock_call.response.parsed)
                    = [ok |-> TRUE, value |-> mock_call.response.parsed]
        ELSE /\ mock_call.response.err = "none"
             /\ mock_call.response.text = MOCK_FINAL_TEXT
             /\ mock_call.response.parsed = NoneResult

C7_Witness ==
    /\ mock_call.done
    /\ mock_call.request.has_config
    /\ mock_call.request.config = {"response_mime_type", "response_schema"}
    /\ mock_call.request.contents.prompt.original_recipe = ""
    /\ mock_call.response.parsed = ExpectedMockPlan
    /\ SubSeq(json_dumps(PlanningResult_model_dump(mock_call.response.parsed)), 1, 51) =
           << "{", "\"", "c", "o", "n", "v", "e", "r", "s", "i", "o", "n", "_", "l", "i", "s", "t", "\"", ":", " ", "[", "{",
              "\"", "a", "m", "o", "u", "n", "t", "\"", ":", " ", "2", ".", "0", ",", " ", "\"", "u", "n", "i", "t", "\"", ":", " ", "\"", "c", "u", "p", "s", "\"" >>

\* the Substitution entries held by the run
HeldSubstitutions ==
    { planning_result.parsed.substitution_map[i] :
        i \in 1..Len(planning_result.parsed.substitution_map) }

\* C8 (as stated): every Substitution entry of a run has three non-empty fields.
C8_FieldsNonEmpty ==
    \A sub \in HeldSubstitutions :
        /\ sub.original_ingredient.t = "str" /\ sub.original_ingredient.s /= << >>
        /\ sub.substitute.t = "str" /\ sub.substitute.s /= << >>
        /\ sub.reason.t = "str" /\ sub.reason.s /= << >>

\* C8 (amended): every Substitution entry of a run has all three fields
\* present with string values; the entries the mock produces have all three
\* non-empty (the schema accepts empty strings from the live Planner).
C8_FieldsAreStrings ==
    \A sub \in HeldSubstitutions :
        /\ sub.original_ingredient.t = "str"
        /\ sub.substitute.t = "str"
        /\ sub.reason.t = "str"
        /\ (client = "mock" =>
              /\ sub.original_ingredient.s /= << >>
              /\ sub.substitute.s /= << >>
              /\ sub.reason.s /= << >>)

C8_Witness ==
    /\ client = "live"
    /\ pc = "DONE"
    /\ \E sub \in HeldSubstitutions : sub.reason = Str(<< >>)

Rank(p) ==
    CASE p = "PLANNING" -> 1
      [] p = "CONVERTING" -> 2
      [] p = "STYLING" -> 3
      [] p = "DONE" -> 4
      [] p = "FAILED" -> 5
      [] OTHER -> 0

\* the outcomes the loop records for the complete items of list cl, in order
RECURSIVE ExpectedOutcomes(_)
ExpectedOutcomes(cl) ==
    IF Len(cl) = 0 THEN << >>
    ELSE LET c == cl[Len(cl)]
             rest == ExpectedOutcomes(SubSeq(cl, 1, Len(cl) - 1))
         IN  IF ContainsAllKeys(c)
             THEN Append(rest, [original_amount |-> c.amount, original_unit |-> c.unit,
                                converted_amount |->
                                    IF Lower(c.unit.s) \in {cup, cups}
                                    THEN Times(Float(c.amount).n, 120).n
                                    ELSE Float(c.amount).n,
                                to_unit |-> c.to_unit])
             ELSE rest

\* C9: within a run the stage only moves forward along PLANNING, CONVERTING,
\* STYLING, DONE (or to the terminal failure); the Planner is invoked exactly
\* once and before any tool call; every tool call happens in CONVERTING, before
\* the Stylist is invoked; the Stylist is invoked at most once, after the loop
\* has gone through the whole list; the plan is not changed after the Planner
\* call; and the Stylist's request carries the prompt built from this run's
\* recipe, style, plan and conversion outcomes.
C9_Step ==
    (run' = run /\ InRun) =>
        /\ Rank(pc') \in {Rank(pc), Rank(pc) + 1, 5}
        /\ (pc \in {"DONE", "FAILED"} => pc' = pc)
        /\ planner_calls' <= 1
        /\ stylist_calls' <= 1
        /\ (pc' \in {"CONVERTING", "STYLING", "DONE"} => planner_calls' = 1)
        /\ (planner_calls' > planner_calls => (pc = "PLANNING" /\ tool_calls = 0))
        /\ (planner_calls >= 1 => planning_result' = planning_result)
        /\ (tool_calls' > tool_calls =>
               (pc = "CONVERTING" /\ planner_calls = 1 /\ stylist_calls = 0))
        /\ (pc' \in {"STYLING", "DONE"} =>
               /\ idx' = Len(conversion_list') + 1
               /\ conversion_list' = planning_result'.parsed.conversion_list
               /\ conversion_results' = ExpectedOutcomes(conversion_list')
               /\ tool_calls' = Len(conversion_results'))
        /\ (stylist_calls' > stylist_calls =>
               /\ pc = "STYLING"
               /\ tool_calls' = tool_calls
               /\ last_request'.contents.agent_name = "Stylist_Agent"
               /\ last_request'.config = {}
               /\ last_request'.contents.prompt =
                      [template |-> "stylist",
                       original_recipe |-> original_recipe,
                       target_style |-> target_style,
                       substitution_map_str |->
                           JsonDumps(planning_result.parsed.substitution_map),
                       conversion_results_str |-> Join(conversion_results)])

C9_StagesInOrder == [][C9_Step]_vars

C9_Witness ==
    /\ client = "live"
    /\ pc = "DONE"
    /\ Len(conversion_list) = 2
    /\ tool_calls = 2
    /\ stylist_calls = 1
    /\ Len(planning_result.parsed.substitution_map) = 1
    /\ Len(last_request.contents.prompt.conversion_results_str) = 3

\* C10: an agent invocation that does not complete ends the run with the
\* provider's error, raised in the stage of that agent; from then on nothing
\* of the run changes (no second invocation, no later stage), the client and
\* the model name stay what they were, and the run has neither printed nor
\* returned anything.
C10_Step ==
    /\ ((planner_calls' > planner_calls /\ pc' /= "CONVERTING") =>
            (pc' = "FAILED" /\ error' = "ProviderCallError" /\ error_at' = "PLANNING"))
    /\ ((stylist_calls' > stylist_calls /\ pc' /= "DONE") =>
            (pc' = "FAILED" /\ error' = "ProviderCallError" /\ error_at' = "STYLING"))
    /\ (error' = "ProviderCallError" =>
            /\ pc' = "FAILED"
            /\ client' = "live"
            /\ API_MODEL_NAME' = LIVE_MODEL_NAME
            /\ printed' = ""
            /\ returned' = "<pending>"
            /\ final_recipe_draft' = NoReturn
            /\ (error_at' = "PLANNING" =>
                   (planner_calls' = 1 /\ tool_calls' = 0 /\ stylist_calls' = 0
                    /\ planning_result' = NoReturn))
            /\ (error_at' = "STYLING" => (planner_calls' = 1 /\ stylist_calls' = 1)))
    /\ ((error = "ProviderCallError" /\ run' = run) => UNCHANGED vars)

C10_ProviderErrorPropagates == [][C10_Step]_vars

C10_Witness ==
    /\ pc = "FAILED"
    /\ error = "ProviderCallError"
    /\ error_at = "STYLING"
    /\ client = "live"
    /\ tool_calls = 1

====
